---------------------------- MODULE Spec2Model ----------------------------
(***************************************************************************)
(* Outbound calling campaign: call-eligibility engine, attempt ledger and  *)
(* daily call queue, modelled from the SQL migrations and edge functions.  *)
(*                                                                         *)
(* The database clock is `now` whole hours since Monday 00:00 of week 0    *)
(* plus `minute` minutes.                                                  *)
(***************************************************************************)
EXTENDS Integers, Sequences, FiniteSets, TLC

VARIABLES
    now,                      \* the database clock, NOW()
    deployed,                 \* which migration's should_call_phone_number is in effect
    call_frequency_settings,  \* table call_frequency_settings: setting_name -> value
    calling_settings,         \* table calling_settings: setting_name -> value
    call_attempts,            \* table call_attempts: one row per (phone_number, call_date)
    phone_number_history,     \* table phone_number_history: one row per phone_number
    vapi_calls,               \* table vapi_calls
    lastCheck,                \* the eligibility decision just returned, if any
    daily_call_queue,         \* table daily_call_queue
    ghlContacts,              \* the contacts the CRM search returns, in its order
    deq,                      \* the get_next_call_batch invocations in flight
    queueBefore,              \* what the queue held when the running dequeues began
    lastPreload,              \* the daily preload run(s) just finished, if any
    minute,                   \* the minutes of the database clock past the hour `now`
    cron_schedules,           \* table cron_schedules
    webhook_cache,            \* table webhook_cache: the recently-sent cache
    dispatch,                 \* the dispatch cycle in flight or just finished
    scheduleCheck,            \* the row should_call_now() just returned, if any
    readyToCall,              \* the rows get_numbers_ready_to_call just returned
    capacityRead,             \* what an overlapping dispatch cycle has read so far
    secondPost,               \* what an overlapping POST to start-calling has checked so far
    startCalling,             \* the POST request to start-calling in flight or just answered
    call_jobs,                \* table call_jobs: id -> status and config_json.rate_limit
    call_job_contacts,        \* table call_job_contacts
    call_runs,                \* table call_runs
    queueRunner               \* the run of the call-job queue runner in flight

ledgerVars == <<call_attempts, phone_number_history, vapi_calls>>

settingVars == <<deployed, call_frequency_settings, calling_settings>>

queueVars == <<daily_call_queue, ghlContacts, deq, queueBefore>>

runnerVars == <<call_jobs, call_job_contacts, call_runs, queueRunner>>

dispatchVars ==
    <<minute, cron_schedules, webhook_cache, dispatch, scheduleCheck, startCalling,
      readyToCall,
      capacityRead,
      secondPost,
      runnerVars>>

vars == <<now, settingVars, ledgerVars, lastCheck, queueVars, lastPreload, dispatchVars>>

-----------------------------------------------------------------------------
(* Bounds of the model *)

\* record_call_attempt runs at most this many times
MaxAttempts == 2

\* the preload fills the queue of a day up to this many contacts
targetTotal == 3

\* calls synced while the queue is explored
MaxQueueCalls == 1

\* the largest batch size asked of get_next_call_batch
MaxBatch == 2

\* the largest batch_size setting start-calling runs with
MaxUiBatch == 3

\* dispatch cycles that are run
MaxCycles == 2

\* update_queue_status runs at most this many times
MaxStatusCalls == 1

\* the largest max_attempts a call_job_contacts item is created with
MaxJobAttempts == 2

\* maxDailyCalls when the setting is missing
DefaultMaxDailyCalls == 30

\* the age in minutes beyond which a sent_to_n8n row is reset
StaleMinutes == 15

\* p_minutes_threshold of the webhook deduplication
DedupeMinutes == 30

\* the default webhook of the dispatch handler
n8nWebhookUrl == "https://n8n.srv775533.hstgr.cloud/webhook/4dd32021-9932-4ce7-af28-b265759b4f72"

\* SQL NULL in a numeric or timestamp column
NULL == -1

\* SQL NULL in a text column
NULLTXT == "<null>"

\* the text NULL produced by || when one operand is NULL
NullText == <<>>

\* the phone numbers of the eligibility model; a phone number is the pair of
\* its prefix and its subscriber digits
Phones == {<<"+44", "7700900123">>}

\* SQL NULL in a phone_number column
NULLPHONE == <<"", "">>

\* the instants (hours since Monday 00:00) the database clock visits:
\* Mon 08:00 09:00 10:00 18:00 19:00, Tue 10:00, Sat 10:00, next Mon 10:00
Instants == {8, 9, 10, 18, 19, 34, 130, 178}

\* the instants the clock visits when the cooldown decision table is
\* explored: Mon 08:00 10:00 18:00 and Tue 10:00
RecordInstants == {8, 10, 18, 34}

\* ended reasons used when the eligibility engine is explored
EligReasons == {"customer-did-not-answer", "customer-ended-call",
                "twilio-failed-to-connect-call"}

\* ended reasons used when the cooldown decision table is explored
AllReasons == {"customer-did-not-answer", "voicemail", "customer-busy",
               "twilio-failed-to-connect-call", "customer-ended-call",
               "assistant-ended-call", "silence-timed-out", "CONNECTION-lost",
               "pipeline-Failed", NULLTXT}

\* the instants the clock visits when the daily queue is explored:
\* Mon 10:00 and Tue 10:00
QueueInstants == {10, 34}

\* the concurrent invocations of get_next_call_batch
Invocations == {1, 2}

\* an invocation slot in which no call is running
IdleInvocation ==
    [pc |-> "idle", n |-> 0, D |-> 0, remaining |-> {}, ret |-> {}]

\* the summary of an empty queue
NoQueueSummary == [pending |-> {}, maxId |-> 0]

\* no preload run has just finished
NoPreload == [kind |-> "none", date |-> 0, runs |-> 0, count |-> 0]

\* a second invocation of the dispatch handler that overlaps the first: it
\* has computed its capacity and has not yet reached the stale recovery
NoCapacityRead == [pc |-> "none", remainingCapacity |-> 0, matchingSchedule |-> 0, at |-> NULL]

\* the queue runner is not running
NoQueueRunner ==
    [pc |-> "idle", jobs |-> <<>>, job |-> 0, queueItems |-> <<>>, totalProcessed |-> 0,
     requests |-> <<>>]

\* no call job exists
InitNoRunner ==
    /\ call_jobs = <<>>
    /\ call_job_contacts = {}
    /\ call_runs = {}
    /\ queueRunner = NoQueueRunner

\* no second POST to start-calling is under way
NoSecondPost == [pc |-> "none", callableContacts |-> <<>>]

\* no request to start-calling has been made
NoStartCalling ==
    [pc |-> "idle", callableContacts |-> <<>>, pos |-> 0, results |-> <<>>,
     successCount |-> 0, errorCount |-> 0, status |-> 0]

\* no dispatch cycle has run
NoDispatch ==
    [pc |-> "idle", cycles |-> 0, bypassCRON |-> FALSE, dryRun |-> FALSE, batchSize |-> 0,
     at |-> 0, matchingSchedule |-> 0, effectiveBatchSize |-> 0, staleReset |-> {},
     filterError |-> FALSE, handed |-> {}, phoneNumbers |-> {}, handoff |-> "none",
     message |-> "none", status |-> 0, statusCalls |-> 0]

-----------------------------------------------------------------------------
(* Time *)

DateOf(t) == t \div 24

HourOf(t) == t % 24

\* NOW() to the minute: minutes since Monday 00:00 of week 0
Clock == now * 60 + minute

\* to_char(ts, 'Day'): the capitalised day name, blank-padded to 9 characters
ToCharDay(t) ==
    LET d == DateOf(t) % 7 IN
    CASE d = 0 -> <<"Monday", "   ">>
      [] d = 1 -> <<"Tuesday", "  ">>
      [] d = 2 -> <<"Wednesday", "">>
      [] d = 3 -> <<"Thursday", " ">>
      [] d = 4 -> <<"Friday", "   ">>
      [] d = 5 -> <<"Saturday", " ">>
      [] OTHER -> <<"Sunday", "   ">>

\* lower() on a padded day name
LowerDay(padded) ==
    LET n == padded[1] IN
    << CASE n = "Monday" -> "monday"
         [] n = "Tuesday" -> "tuesday"
         [] n = "Wednesday" -> "wednesday"
         [] n = "Thursday" -> "thursday"
         [] n = "Friday" -> "friday"
         [] n = "Saturday" -> "saturday"
         [] OTHER -> "sunday",
       padded[2] >>

\* trim(): drops the padding
TrimDay(padded) == padded[1]

-----------------------------------------------------------------------------
(* Text of the ended reasons, for ILIKE *)

Chars(r) ==
    CASE r = "customer-did-not-answer" ->
         <<"c","u","s","t","o","m","e","r","-","d","i","d","-","n","o","t","-","a","n","s","w","e","r">>
      [] r = "voicemail" ->
         <<"v","o","i","c","e","m","a","i","l">>
      [] r = "customer-busy" ->
         <<"c","u","s","t","o","m","e","r","-","b","u","s","y">>
      [] r = "twilio-failed-to-connect-call" ->
         <<"t","w","i","l","i","o","-","f","a","i","l","e","d","-","t","o","-","c","o","n","n","e","c","t","-","c","a","l","l">>
      [] r = "customer-ended-call" ->
         <<"c","u","s","t","o","m","e","r","-","e","n","d","e","d","-","c","a","l","l">>
      [] r = "assistant-ended-call" ->
         <<"a","s","s","i","s","t","a","n","t","-","e","n","d","e","d","-","c","a","l","l">>
      [] r = "silence-timed-out" ->
         <<"s","i","l","e","n","c","e","-","t","i","m","e","d","-","o","u","t">>
      [] r = "CONNECTION-lost" ->
         <<"C","O","N","N","E","C","T","I","O","N","-","l","o","s","t">>
      [] r = "pipeline-Failed" ->
         <<"p","i","p","e","l","i","n","e","-","F","a","i","l","e","d">>
      [] OTHER -> <<>>

Upper == <<"A","B","C","D","E","F","G","H","I","J","K","L","M","N","O","P","Q","R","S","T","U","V","W","X","Y","Z">>

Lower == <<"a","b","c","d","e","f","g","h","i","j","k","l","m","n","o","p","q","r","s","t","u","v","w","x","y","z">>

LowerChar(c) ==
    IF \E i \in 1..Len(Upper) : Upper[i] = c
    THEN Lower[CHOOSE i \in 1..Len(Upper) : Upper[i] = c]
    ELSE c

LowerText(s) == [i \in 1..Len(s) |-> LowerChar(s[i])]

Contains(s, pat) ==
    \E i \in 1..(Len(s) - Len(pat) + 1) : SubSeq(s, i, i + Len(pat) - 1) = pat

\* r ILIKE '%pat%'; NULL (not true) when r is NULL
ILike(r, pat) ==
    /\ r # NULLTXT
    /\ Contains(LowerText(Chars(r)), LowerText(pat))

-----------------------------------------------------------------------------
(* Settings *)

\* the rows migration 004 inserts into call_frequency_settings
DefaultFrequencySettings ==
    [default_cooldown_hours |-> 24,
     no_pickup_cooldown_hours |-> 72,
     failed_connection_cooldown_hours |-> 6,
     customer_ended_cooldown_hours |-> 168,
     max_attempts_per_day |-> 1,
     max_attempts_per_week |-> 3,
     max_total_attempts |-> 5,
     call_window_start |-> 9,
     call_window_end |-> 18,
     enabled_days |-> {"monday", "tuesday", "wednesday", "thursday", "friday"}]

\* the same rows after an administrator changed their values
TunedFrequencySettings ==
    [default_cooldown_hours |-> 8,
     no_pickup_cooldown_hours |-> 24,
     failed_connection_cooldown_hours |-> 1,
     customer_ended_cooldown_hours |-> 48,
     max_attempts_per_day |-> 2,
     max_attempts_per_week |-> 3,
     max_total_attempts |-> 2,
     call_window_start |-> 10,
     call_window_end |-> 18,
     enabled_days |-> {"monday", "tuesday", "thursday", "saturday"}]

\* the table after the rows of the cooldown hours, of the caps and of the
\* calling window were deleted: no row is read as NULL
AbsentFrequencySettings ==
    [default_cooldown_hours |-> NULL,
     no_pickup_cooldown_hours |-> NULL,
     failed_connection_cooldown_hours |-> NULL,
     customer_ended_cooldown_hours |-> NULL,
     max_attempts_per_day |-> NULL,
     max_attempts_per_week |-> NULL,
     max_total_attempts |-> NULL,
     call_window_start |-> NULL,
     call_window_end |-> NULL,
     enabled_days |-> {"monday", "tuesday", "wednesday", "thursday", "friday"}]

\* calling_settings: max_daily_calls absent, or set to a small value
CallingSettingsChoices ==
    {[max_daily_calls |-> NULL], [max_daily_calls |-> 1]}

-----------------------------------------------------------------------------
(* The attempt ledger: record_call_attempt *)

\* a CASE that matches twilio/connection/failed with LIKE instead of ILIKE
CooldownSettingCaseSensitive(p_ended_reason) ==
    IF p_ended_reason \in {"customer-did-not-answer", "voicemail", "customer-busy"}
    THEN "no_pickup_cooldown_hours"
    ELSE IF \/ Contains(Chars(p_ended_reason), <<"t","w","i","l","i","o">>)
            \/ Contains(Chars(p_ended_reason), <<"c","o","n","n","e","c","t","i","o","n">>)
            \/ Contains(Chars(p_ended_reason), <<"f","a","i","l","e","d">>)
    THEN "failed_connection_cooldown_hours"
    ELSE IF p_ended_reason = "customer-ended-call"
    THEN "customer_ended_cooldown_hours"
    ELSE "default_cooldown_hours"

\* the CASE of record_call_attempt: the setting the ended reason selects
CooldownSetting(p_ended_reason) ==
    IF p_ended_reason \in {"customer-did-not-answer", "voicemail", "customer-busy"}
    THEN "no_pickup_cooldown_hours"
    ELSE IF \/ ILike(p_ended_reason, <<"t","w","i","l","i","o">>)
            \/ ILike(p_ended_reason, <<"c","o","n","n","e","c","t","i","o","n">>)
            \/ ILike(p_ended_reason, <<"f","a","i","l","e","d">>)
    THEN "failed_connection_cooldown_hours"
    ELSE IF p_ended_reason = "customer-ended-call"
    THEN "customer_ended_cooldown_hours"
    ELSE "default_cooldown_hours"

\* SELECT (setting_value)::INTEGER INTO v FROM call_frequency_settings
GetFrequencySetting(name) == call_frequency_settings[name]

\* v_cooldown_until := p_call_time + v_cooldown_hours hours (NULL + x is NULL)
CooldownUntil(p_ended_reason, p_call_time) ==
    LET v_cooldown_hours == GetFrequencySetting(CooldownSetting(p_ended_reason)) IN
    IF v_cooldown_hours = NULL THEN NULL ELSE p_call_time + v_cooldown_hours

AttemptRows(p, d) ==
    {r \in call_attempts : r.phone_number = p /\ r.call_date = d}

HistoryRows(p) == {r \in phone_number_history : r.phone_number = p}

\* an upsert whose DO UPDATE takes attempt_count from the proposed row
UpsertCallAttemptExcluded(p, p_call_status, p_ended_reason, p_call_time) ==
    LET d == DateOf(p_call_time)
        old == AttemptRows(p, d)
        until == CooldownUntil(p_ended_reason, p_call_time)
    IN  (call_attempts \ old) \cup
        {[phone_number |-> p, call_date |-> d, attempt_count |-> 1,
          last_attempt_at |-> p_call_time, last_call_status |-> p_call_status,
          last_ended_reason |-> p_ended_reason, cooldown_until |-> until,
          created_at |-> now]}

\* INSERT INTO call_attempts ... ON CONFLICT (phone_number, call_date) DO UPDATE
UpsertCallAttempt(p, p_call_status, p_ended_reason, p_call_time) ==
    LET d == DateOf(p_call_time)
        old == AttemptRows(p, d)
        until == CooldownUntil(p_ended_reason, p_call_time)
    IN  IF old = {}
        THEN call_attempts \cup
             {[phone_number |-> p, call_date |-> d, attempt_count |-> 1,
               last_attempt_at |-> p_call_time, last_call_status |-> p_call_status,
               last_ended_reason |-> p_ended_reason, cooldown_until |-> until,
               created_at |-> now]}
        ELSE (call_attempts \ old) \cup
             {[r EXCEPT !.attempt_count = r.attempt_count + 1,
                        !.last_attempt_at = p_call_time,
                        !.last_call_status = p_call_status,
                        !.last_ended_reason = p_ended_reason,
                        !.cooldown_until = until] : r \in old}

\* an upsert whose DO UPDATE writes the column default of permanent_dnc back
UpsertPhoneHistoryResetDnc(p, p_ended_reason, p_call_time) ==
    LET old == HistoryRows(p) IN
    IF old = {}
    THEN phone_number_history \cup
         {[phone_number |-> p, total_attempts |-> 1, last_successful_call |-> NULL,
           last_pickup_call |-> NULL, permanent_dnc |-> FALSE]}
    ELSE (phone_number_history \ old) \cup
         {[r EXCEPT !.total_attempts = r.total_attempts + 1,
                    !.permanent_dnc = FALSE] : r \in old}

\* INSERT INTO phone_number_history ... ON CONFLICT (phone_number) DO UPDATE
UpsertPhoneHistory(p, p_ended_reason, p_call_time) ==
    LET old == HistoryRows(p) IN
    IF old = {}
    THEN phone_number_history \cup
         {[phone_number |-> p, total_attempts |-> 1, last_successful_call |-> NULL,
           last_pickup_call |-> NULL, permanent_dnc |-> FALSE]}
    ELSE (phone_number_history \ old) \cup
         {[r EXCEPT !.total_attempts = r.total_attempts + 1,
                    !.last_successful_call =
                        IF p_ended_reason \in {"customer-ended-call", "assistant-ended-call"}
                        THEN p_call_time ELSE r.last_successful_call,
                    !.last_pickup_call =
                        IF /\ p_ended_reason # NULLTXT
                           /\ p_ended_reason \notin
                                {"customer-did-not-answer", "voicemail", "customer-busy",
                                 "twilio-failed-to-connect-call"}
                        THEN p_call_time ELSE r.last_pickup_call] : r \in old}

\* the number of record_call_attempt runs so far
AttemptsRecorded ==
    LET RECURSIVE Sum(_)
        Sum(S) == IF S = {} THEN 0
                  ELSE LET r == CHOOSE x \in S : TRUE
                       IN r.attempt_count + Sum(S \ {r})
    IN Sum(call_attempts)

\* record_call_attempt(p_phone_number, p_call_status, p_ended_reason, p_call_time)
record_call_attempt(p, p_call_status, p_ended_reason, p_call_time) ==
    /\ call_attempts' = UpsertCallAttempt(p, p_call_status, p_ended_reason, p_call_time)
    /\ phone_number_history' = UpsertPhoneHistory(p, p_ended_reason, p_call_time)

-----------------------------------------------------------------------------
(* The eligibility engine: should_call_phone_number *)

\* a window whose end bound is exclusive
OutsideCallingHoursEndExclusive(current_time, call_window_start, call_window_end) ==
    \/ (call_window_start # NULL /\ current_time < call_window_start)
    \/ (call_window_end # NULL /\ current_time >= call_window_end)

\* current_time < call_window_start OR current_time > call_window_end
OutsideCallingHours(current_time, call_window_start, call_window_end) ==
    \/ (call_window_start # NULL /\ current_time < call_window_start)
    \/ (call_window_end # NULL /\ current_time > call_window_end)

\* plpgsql.variable_conflict: what the server does with a name of a query
\* that is both a column of the table read and an output column of the
\* function (cooldown_until and total_attempts in migration 004); "error" is
\* the server default
VariableConflict == {"error", "use_column"}

\* migration 004's should_call_phone_number(p_phone_number, p_current_time).
\* A SELECT ... INTO that finds no row assigns NULL to its targets.
should_call_phone_number_004(p, p_current_time, variable_conflict) ==
    LET v_max_daily == GetFrequencySetting("max_attempts_per_day")
        v_max_total == GetFrequencySetting("max_total_attempts")
        call_window_start == GetFrequencySetting("call_window_start")
        call_window_end == GetFrequencySetting("call_window_end")
        enabled_days == GetFrequencySetting("enabled_days")
        current_day == LowerDay(ToCharDay(p_current_time))
        current_time == HourOf(p_current_time)
        hist == HistoryRows(p)
        v_permanent_dnc == \E h \in hist : h.permanent_dnc
        today == AttemptRows(p, DateOf(p_current_time))
        v_attempts_today ==
            IF today = {} THEN NULL ELSE (CHOOSE r \in today : TRUE).attempt_count
        v_cooldown_until ==
            IF today = {} THEN NULL ELSE (CHOOSE r \in today : TRUE).cooldown_until
        v_total_attempts ==
            IF hist = {} THEN NULL ELSE (CHOOSE h \in hist : TRUE).total_attempts
        Blocked(text) ==
            [can_call |-> FALSE, reason |-> <<text>>, cooldown_until |-> NULL,
             attempts_today |-> 0, total_attempts |-> 0]
        Counted(ok, text, until) ==
            [can_call |-> ok, reason |-> <<text>>, cooldown_until |-> until,
             attempts_today |-> v_attempts_today, total_attempts |-> v_total_attempts]
        \* the query raises "column reference is ambiguous": the RPC fails
        \* and its caller reads no row
        Raised ==
            [can_call |-> FALSE, reason |-> <<"column reference is ambiguous">>,
             cooldown_until |-> NULL, attempts_today |-> NULL, total_attempts |-> NULL]
    IN  IF v_permanent_dnc
        THEN Blocked("Permanent Do Not Call")
        ELSE IF ~(TrimDay(current_day) \in enabled_days)
        THEN Blocked("Outside calling days")
        ELSE IF OutsideCallingHours(current_time, call_window_start, call_window_end)
        THEN Blocked("Outside calling hours")
        ELSE IF variable_conflict = "error"
        THEN Raised
        ELSE IF v_cooldown_until # NULL /\ v_cooldown_until > p_current_time
        THEN Counted(FALSE, "In cooldown period", v_cooldown_until)
        ELSE IF v_attempts_today # NULL /\ v_max_daily # NULL /\ v_attempts_today >= v_max_daily
        THEN Counted(FALSE, "Daily limit reached", NULL)
        ELSE IF v_total_attempts # NULL /\ v_max_total # NULL /\ v_total_attempts >= v_max_total
        THEN Counted(FALSE, "Total limit reached", NULL)
        ELSE Counted(TRUE, "OK", NULL)

MaxOf(S) == CHOOSE x \in S : \A y \in S : y <= x

\* SELECT ended_reason FROM vapi_calls WHERE phone_number = p
\* ORDER BY started_at DESC LIMIT 1: any of the latest rows; NULL without a row
LastEndedReasons(p) ==
    LET rows == {v \in vapi_calls : v.phone_number = p} IN
    IF rows = {} THEN {NULLTXT}
    ELSE {v.ended_reason : v \in {w \in rows : \A x \in rows : x.started_at <= w.started_at}}

\* the CASE of migration 009: the setting the last ended reason selects
CooldownSetting009(v_last_call_ended_reason) ==
    CASE v_last_call_ended_reason = "customer-did-not-answer" -> "no_pickup_cooldown_hours"
      [] v_last_call_ended_reason = "twilio-failed-to-connect-call" -> "failed_connection_cooldown_hours"
      [] v_last_call_ended_reason = "customer-ended-call" -> "customer_ended_cooldown_hours"
      [] OTHER -> "default_cooldown_hours"

\* migration 009's should_call_phone_number(p_phone_number, p_current_time);
\* v_last_call_ended_reason is the row the vapi_calls query returned
should_call_phone_number_009(p, p_current_time, v_last_call_ended_reason) ==
    LET daily == calling_settings["max_daily_calls"]
        v_max_daily == IF daily = NULL THEN 100 ELSE daily
        total == GetFrequencySetting("max_total_attempts")
        v_max_total == IF total = NULL THEN 10 ELSE total
        call_window_start == GetFrequencySetting("call_window_start")
        call_window_end == GetFrequencySetting("call_window_end")
        current_date_start == DateOf(p_current_time) * 24
        current_time == HourOf(p_current_time)
        today == {r \in call_attempts :
                    r.phone_number = p /\ r.created_at >= current_date_start}
        v_attempts_today == Cardinality(today)
        v_last_attempt == IF today = {} THEN NULL ELSE MaxOf({r.created_at : r \in today})
        v_total_attempts == Cardinality({r \in call_attempts : r.phone_number = p})
        hours == GetFrequencySetting(CooldownSetting009(v_last_call_ended_reason))
        v_cooldown_hours == IF hours = NULL THEN 24 ELSE hours
        Result(ok, text, until) ==
            [should_call |-> ok, reason |-> text, attempts_today |-> v_attempts_today,
             total_attempts |-> v_total_attempts, last_attempt |-> v_last_attempt,
             cooldown_until |-> until]
    IN  IF v_attempts_today >= v_max_daily
        THEN Result(FALSE, <<"Daily limit reached (", v_attempts_today, "/", v_max_daily, ")">>, NULL)
        ELSE IF v_total_attempts >= v_max_total
        THEN Result(FALSE, <<"Total limit reached (", v_total_attempts, "/", v_max_total, ")">>, NULL)
        ELSE IF OutsideCallingHours(current_time, call_window_start, call_window_end)
        THEN Result(FALSE,
                    IF call_window_start = NULL \/ call_window_end = NULL THEN NullText
                    ELSE <<"Outside calling window (", call_window_start, "-", call_window_end, ")">>,
                    NULL)
        ELSE IF v_last_attempt # NULL /\ v_last_attempt + v_cooldown_hours > p_current_time
        THEN Result(FALSE,
                    IF v_last_call_ended_reason = NULLTXT THEN NullText
                    ELSE <<"Cooldown active (", v_cooldown_hours, "h after ",
                           v_last_call_ended_reason, ")">>,
                    v_last_attempt + v_cooldown_hours)
        ELSE Result(TRUE, <<"Ready to call">>, NULL)

\* the rows an RPC to should_call_phone_number can return
should_call_phone_number(p, p_current_time) ==
    IF deployed = "004"
    THEN {should_call_phone_number_004(p, p_current_time, c) : c \in VariableConflict}
    ELSE {should_call_phone_number_009(p, p_current_time, r) : r \in LastEndedReasons(p)}

\* the boolean column of the returned row (can_call in 004, should_call in 009)
CanCall(res) == IF deployed = "004" THEN res.can_call ELSE res.should_call

\* the reason code a returned reason text stands for
ReasonCode(res) ==
    IF Len(res.reason) = 0 THEN "null"
    ELSE LET t == Head(res.reason) IN
         CASE t = "Permanent Do Not Call" -> "permanent_dnc"
           [] t = "Outside calling days" -> "outside_calling_days"
           [] t \in {"Outside calling hours", "Outside calling window ("} -> "outside_calling_hours"
           [] t \in {"In cooldown period", "Cooldown active ("} -> "in_cooldown"
           [] t \in {"Daily limit reached", "Daily limit reached ("} -> "daily_limit_reached"
           [] t \in {"Total limit reached", "Total limit reached ("} -> "total_limit_reached"
           [] t \in {"OK", "Ready to call"} -> "ok"
           [] OTHER -> "unknown"

-----------------------------------------------------------------------------
(* Operations on the ledger *)

\* the instants at which a call synced at `now` may have started
StartedAtChoices ==
    {now} \cup {t \in Instants : t < now /\ \A u \in Instants : u < now => u <= t}

\* the database clock moves on
Tick(instants) ==
    /\ \E t \in instants : t > now /\ now' = t
    /\ lastCheck' = {}
    /\ lastPreload' = NoPreload
    /\ minute' = 0
    /\ UNCHANGED <<settingVars, ledgerVars, queueVars, cron_schedules, webhook_cache,
                   dispatch, scheduleCheck, startCalling,
                   readyToCall,
                   capacityRead,
                   secondPost,
                   runnerVars>>

\* start-calling records the attempt right after the call was placed
StartCallingRecord(p) ==
    /\ AttemptsRecorded < MaxAttempts
    /\ record_call_attempt(p, "initiated", NULLTXT, now)
    /\ lastCheck' = {}
    /\ lastPreload' = NoPreload
    /\ UNCHANGED <<now, settingVars, vapi_calls, queueVars, dispatchVars>>

\* trigger_vapi_calls_record_attempt: AFTER INSERT OR UPDATE ON vapi_calls
trigger_record_call_attempt(new) ==
    IF new.phone_number # NULLPHONE /\ new.status # NULLTXT
    THEN record_call_attempt(new.phone_number, new.status, new.ended_reason,
                             IF new.started_at = NULL THEN now ELSE new.started_at)
    ELSE UNCHANGED <<call_attempts, phone_number_history>>

\* vapi-sync: the queue status a call status of the provider maps to
QueueStatusOf(status) ==
    CASE status \in {"ringing", "in-progress", "forwarding"} -> "calling"
      [] status = "ended" -> "completed"
      [] status = "failed" -> "failed"
      [] OTHER -> NULLTXT

\* vapi-sync: the rows of the call's date and number that are sent_to_n8n or
\* calling take the mapped status
SyncQueueStatus(call) ==
    IF /\ call.call_type = "outbound"
       /\ call.phone_number # NULLPHONE
       /\ call.started_at # NULL
       /\ QueueStatusOf(call.status) # NULLTXT
    THEN {IF /\ r.queue_date = DateOf(call.started_at)
             /\ r.phone_number = call.phone_number
             /\ r.status \in {"sent_to_n8n", "calling"}
          THEN [r EXCEPT !.status = QueueStatusOf(call.status), !.updated_at = Clock]
          ELSE r : r \in daily_call_queue}
    ELSE daily_call_queue

\* vapi-sync stores a call of the provider in vapi_calls, the trigger fires,
\* and the queue status is synced
VapiSyncCall(p, statuses, reasons, starts) ==
    /\ \E status \in statuses, reason \in reasons, started \in starts :
         LET new == [call_id |-> Cardinality(vapi_calls) + 1, phone_number |-> p,
                     call_type |-> "outbound", status |-> status,
                     ended_reason |-> IF status = "ended" THEN reason ELSE NULLTXT,
                     started_at |-> started, ai_analysis_status |-> NULLTXT,
                     asked_explicitly_to_not_call_again |-> FALSE]
         IN  /\ vapi_calls' = vapi_calls \cup {new}
             /\ trigger_record_call_attempt(new)
             /\ daily_call_queue' = SyncQueueStatus(new)
    /\ lastCheck' = {}
    /\ lastPreload' = NoPreload
    /\ UNCHANGED <<now, settingVars, ghlContacts, deq, queueBefore, dispatchVars>>

\* a finished call is synced
VapiCallSynced(p, reasons) ==
    /\ AttemptsRecorded < MaxAttempts
    /\ VapiSyncCall(p, {"ended"}, reasons, StartedAtChoices)

\* an administrator marks a number as permanent do-not-call
AdminSetDnc(p) ==
    /\ ~\E h \in HistoryRows(p) : h.permanent_dnc
    /\ phone_number_history' =
         IF HistoryRows(p) = {}
         THEN phone_number_history \cup
              {[phone_number |-> p, total_attempts |-> 0, last_successful_call |-> NULL,
                last_pickup_call |-> NULL, permanent_dnc |-> TRUE]}
         ELSE (phone_number_history \ HistoryRows(p)) \cup
              {[h EXCEPT !.permanent_dnc = TRUE] : h \in HistoryRows(p)}
    /\ lastCheck' = {}
    /\ UNCHANGED <<now, settingVars, call_attempts, vapi_calls, queueVars, lastPreload,
                   dispatchVars>>

\* an RPC to should_call_phone_number(p) at the current time
CheckEligibility(p) ==
    /\ \E res \in should_call_phone_number(p, now) :
         lastCheck' = {[phone |-> p, at |-> now, res |-> res]}
    /\ UNCHANGED <<now, settingVars, ledgerVars, queueVars, lastPreload, dispatchVars>>

\* no schedule, no cache entry, no dispatch cycle
InitNoDispatch ==
    /\ minute = 0
    /\ cron_schedules = {}
    /\ webhook_cache = {}
    /\ dispatch = NoDispatch
    /\ scheduleCheck = {}
    /\ startCalling = NoStartCalling
    /\ InitNoRunner
    /\ secondPost = NoSecondPost
    /\ capacityRead = NoCapacityRead
    /\ readyToCall = {}

InitLedger ==
    /\ now = 8
    /\ deployed \in {"004", "009"}
    /\ call_frequency_settings \in {DefaultFrequencySettings, TunedFrequencySettings}
    /\ calling_settings \in CallingSettingsChoices
    /\ call_attempts = {}
    /\ phone_number_history = {}
    /\ vapi_calls = {}
    /\ lastCheck = {}

\* no contact has been queued and no dequeue is running
InitNoQueue ==
    /\ daily_call_queue = {}
    /\ ghlContacts = <<>>
    /\ deq = [i \in Invocations |-> IdleInvocation]
    /\ queueBefore = NoQueueSummary
    /\ lastPreload = NoPreload

InitElig == InitLedger /\ InitNoQueue /\ InitNoDispatch

NextElig ==
    \/ Tick(Instants)
    \/ \E p \in Phones : StartCallingRecord(p)
    \/ \E p \in Phones : VapiCallSynced(p, EligReasons)
    \/ \E p \in Phones : AdminSetDnc(p)
    \/ \E p \in Phones : CheckEligibility(p)

SpecElig == InitElig /\ [][NextElig]_vars

InitDefaults ==
    /\ now = 8
    /\ deployed \in {"004", "009"}
    /\ call_frequency_settings = AbsentFrequencySettings
    /\ calling_settings = [max_daily_calls |-> NULL]
    /\ call_attempts = {}
    /\ phone_number_history = {}
    /\ vapi_calls = {}
    /\ lastCheck = {}
    /\ InitNoQueue
    /\ InitNoDispatch

NextDefaults ==
    \/ Tick(Instants)
    \/ \E p \in Phones : StartCallingRecord(p)
    \/ \E p \in Phones : VapiCallSynced(p, EligReasons)
    \/ \E p \in Phones : CheckEligibility(p)

SpecDefaults == InitDefaults /\ [][NextDefaults]_vars

InitRecord ==
    /\ InitLedger
    /\ InitNoQueue
    /\ InitNoDispatch
    /\ deployed = "004"
    /\ calling_settings = [max_daily_calls |-> NULL]

NextRecord ==
    \/ Tick(RecordInstants)
    \/ \E p \in Phones : StartCallingRecord(p)
    \/ \E p \in Phones : VapiCallSynced(p, AllReasons)

SpecRecord == InitRecord /\ [][NextRecord]_vars

-----------------------------------------------------------------------------
(* Daily call queue: preload *)

\* the largest id given out so far; ids stand for gen_random_uuid()
MaxId == IF daily_call_queue = {} THEN 0 ELSE MaxOf({r.id : r \in daily_call_queue})

\* a row as the INSERTs of the preload build it, column defaults included
QueueRow(id, queue_date, c) ==
    [id |-> id, queue_date |-> queue_date, contact_id |-> c.contact_id,
     phone_number |-> c.phone_number, priority_score |-> c.priority_score,
     contact_data |-> c.contact_data,
     status |-> "pending", sent_to_n8n_at |-> NULL, skip_reason |-> NULLTXT,
     created_at |-> Clock, updated_at |-> Clock]

\* a table without the UNIQUE constraint
NeverViolatesUnique(queue, queue_date, contacts) == FALSE

\* UNIQUE(queue_date, contact_id): the new rows collide with a stored row or
\* with one another
ViolatesUnique(queue, queue_date, contacts) ==
    \E k \in DOMAIN contacts :
        \/ \E r \in queue :
             r.queue_date = queue_date /\ r.contact_id = contacts[k].contact_id
        \/ \E j \in DOMAIN contacts :
             j # k /\ contacts[j].contact_id = contacts[k].contact_id

\* calculatePriorityScore(contact)
calculatePriorityScore(contact) ==
    LET inactive == contact.lastActivity = <<>> \/ contact.lastActivity[1] < now - 30 * 24
        hot == "hot lead" \in contact.tags
        daysOld == IF contact.dateAdded = <<>> THEN 0
                   ELSE (now - contact.dateAdded[1]) \div 24
        score == 50 + (IF inactive THEN 30 ELSE 0) + (IF hot THEN 20 ELSE 0)
                    + (IF daysOld > 30 THEN 10 ELSE 0) + (IF daysOld > 60 THEN 10 ELSE 0)
    IN  IF score < 100 THEN score ELSE 100

\* should_call_phone_number_smart: the multi-day cooldown component of the
\* eligibility check
should_call_phone_number_smart(p_phone_number) ==
    [can_call |-> ~\E ca \in call_attempts :
                      /\ ca.phone_number = p_phone_number
                      /\ ca.cooldown_until # NULL
                      /\ ca.cooldown_until > now]

\* the number of characters of a phone string
PhoneLength(phone) == Len(phone[1]) + Len(phone[2])

\* a national number (leading 0) is rewritten to +44
PhoneForCheck(phone) == IF phone[1] = "0" THEN <<"+44", phone[2]>> ELSE phone

\* the loop of the preload handler over the fetched contacts: it collects
\* the contacts that may be called and stops once `needed` are found
RECURSIVE EligibleContacts(_, _, _)
EligibleContacts(contacts, eligibleContacts, needed) ==
    IF contacts = <<>> THEN eligibleContacts
    ELSE LET contact == Head(contacts) IN
         IF contact.phone = NULLPHONE \/ PhoneLength(contact.phone) < 8
         THEN EligibleContacts(Tail(contacts), eligibleContacts, needed)
         ELSE LET phoneForCheck == PhoneForCheck(contact.phone)
                  cooldownCheck == should_call_phone_number_smart(phoneForCheck)
                  pushed == Append(eligibleContacts,
                                   [contact_id |-> contact.id,
                                    phone_number |-> phoneForCheck,
                                    contact_data |-> [phone |-> contact.phone],
                                    priority_score |-> calculatePriorityScore(contact)])
              IN  IF cooldownCheck.can_call
                  THEN IF Len(pushed) >= needed THEN pushed
                       ELSE EligibleContacts(Tail(contacts), pushed, needed)
                  ELSE EligibleContacts(Tail(contacts), eligibleContacts, needed)

\* what lastPreload holds after a preload run of `kind` for `date` that left
\* the table `queue`
PreloadDone(kind, date, queue) ==
    IF lastPreload.kind = kind /\ lastPreload.date = date
    THEN [lastPreload EXCEPT !.runs = 2]
    ELSE [kind |-> kind, date |-> date, runs |-> 1,
          count |-> Cardinality({r \in queue : r.queue_date = date})]

\* the daily preload edge function
DailyPreloadHandler ==
    LET today == DateOf(now)
        existingCount == Cardinality({r \in daily_call_queue : r.queue_date = today})
        alreadyLoaded == existingCount
        needed == IF targetTotal - alreadyLoaded > 0 THEN targetTotal - alreadyLoaded ELSE 0
        eligibleContacts == EligibleContacts(ghlContacts, <<>>, needed)
        inserted == {QueueRow(MaxId + k, today, eligibleContacts[k]) :
                        k \in DOMAIN eligibleContacts}
    IN  /\ daily_call_queue' =
             IF \/ alreadyLoaded >= targetTotal
                \/ Len(ghlContacts) = 0
                \/ Len(eligibleContacts) = 0
                \/ ViolatesUnique(daily_call_queue, today, eligibleContacts)
             THEN daily_call_queue
             ELSE daily_call_queue \cup inserted
        /\ lastPreload' = PreloadDone("handler", today, daily_call_queue')
        /\ lastCheck' = {}
        /\ UNCHANGED <<now, settingVars, ledgerVars, ghlContacts, deq, queueBefore,
                       dispatchVars>>

\* LPAD(i::text, 9, '0')
LPad9(i) ==
    <<"000000001", "000000002", "000000003", "000000004", "000000005">>[i]

\* the placeholder contacts of preload_daily_contacts
MockContacts(p_target_count) ==
    {[series |-> i, contact_id |-> <<"contact_", i>>,
      phone_number |-> <<"+447", LPad9(i)>>, contact_data |-> [phone |-> NULLPHONE],
      last_called_at |-> NULL] :
        i \in 1..p_target_count}

\* the priority CASE of preload_daily_contacts
MockPriorityScore(last_called_at) ==
    IF last_called_at = NULL THEN 100
    ELSE IF last_called_at < now - 30 * 24 THEN 80
    ELSE IF last_called_at < now - 14 * 24 THEN 60
    ELSE 40

\* the rows a get_next_call_batch in flight holds locked
LockedBy(i) == IF deq[i].pc = "scan" THEN deq[i].ret ELSE {}

\* preload_daily_contacts(p_target_count, p_queue_date); its UPDATE waits for
\* the row locks of a running dequeue
preload_daily_contacts(p_target_count, p_queue_date) ==
    LET expired == {r \in daily_call_queue :
                       r.queue_date < p_queue_date /\ r.status = "pending"}
        cleared == (daily_call_queue \ expired) \cup
                   {[r EXCEPT !.status = "skipped",
                              !.skip_reason = "Expired - new day started",
                              !.updated_at = Clock] : r \in expired}
        v_loaded_count == Cardinality({r \in cleared : r.queue_date = p_queue_date})
        eligible_contacts ==
            {m \in MockContacts(p_target_count) :
                ~\E ca \in call_attempts :
                    /\ ca.phone_number = m.phone_number
                    /\ ca.last_ended_reason \in
                         {"customer-ended-call", "voicemail", "assistant-ended-call"}
                    /\ ca.last_attempt_at > now - 14 * 24}
        inserted ==
            {QueueRow(MaxId + m.series, p_queue_date,
                      [contact_id |-> m.contact_id, phone_number |-> m.phone_number,
                       contact_data |-> m.contact_data,
                       priority_score |-> MockPriorityScore(m.last_called_at)]) :
                m \in {e \in eligible_contacts :
                          ~\E r \in cleared : r.queue_date = p_queue_date
                                              /\ r.contact_id = e.contact_id}}
    IN  /\ \A r \in expired : \A i \in Invocations : r.id \notin LockedBy(i)
        /\ daily_call_queue' = IF v_loaded_count > 0 THEN cleared ELSE cleared \cup inserted
        /\ lastPreload' = PreloadDone("sql", p_queue_date, daily_call_queue')
        /\ lastCheck' = {}
        /\ UNCHANGED <<now, settingVars, ledgerVars, ghlContacts, deq, queueBefore,
                       dispatchVars>>

\* daily_preload_job(): SELECT * FROM preload_daily_contacts(100)
daily_preload_job == preload_daily_contacts(targetTotal, DateOf(now))

-----------------------------------------------------------------------------
(* Daily call queue: get_next_call_batch *)

\* the stored row with an id
Row(id) == CHOOSE r \in daily_call_queue : r.id = id

\* ORDER BY created_at alone
SortsBeforeByCreation(a, b) == a.created_at < b.created_at

\* ORDER BY priority_score DESC, created_at
SortsBefore(a, b) ==
    \/ a.priority_score > b.priority_score
    \/ a.priority_score = b.priority_score /\ a.created_at < b.created_at

\* a scan that does not see the locks of other transactions
RowNeverLocked(i, id) == FALSE

\* SKIP LOCKED: another transaction holds the row
RowLockedByOther(i, id) == \E j \in Invocations \ {i} : id \in LockedBy(j)

\* a scan that takes a row of its snapshot without looking at the latest
\* version of the row
CanLockSnapshotRow(i, id) == ~RowLockedByOther(i, id)

\* FOR UPDATE takes the row if nobody holds it and its latest version still
\* satisfies the WHERE clause
CanLock(i, id) ==
    /\ ~RowLockedByOther(i, id)
    /\ Row(id).status = "pending"
    /\ Row(id).queue_date = deq[i].D

\* the pending rows and the newest id of the table
QueueSummary ==
    [pending |-> {r.id : r \in {q \in daily_call_queue : q.status = "pending"}},
     maxId |-> MaxId]

\* an invocation whose statement has just read, in its snapshot of the
\* table `queue`, the pending rows of the date
StartedInvocation(queue, p_batch_size, p_queue_date) ==
    [pc |-> "scan", n |-> p_batch_size, D |-> p_queue_date,
     remaining |-> {r.id : r \in {q \in queue :
                       q.queue_date = p_queue_date /\ q.status = "pending"}},
     ret |-> {}]

\* the statement starts: it reads the pending rows of the date in its snapshot
get_next_call_batch_Start(i, p_batch_size, p_queue_date) ==
    LET joins == \E j \in Invocations \ {i} : deq[j].pc = "scan" IN
    /\ deq[i].pc = "idle"
    /\ deq' = [j \in Invocations |->
                 IF j = i
                 THEN StartedInvocation(daily_call_queue, p_batch_size, p_queue_date)
                 ELSE IF joins THEN deq[j]
                 ELSE IdleInvocation]
    /\ queueBefore' = IF joins THEN queueBefore ELSE QueueSummary
    /\ lastCheck' = {}
    /\ UNCHANGED <<now, settingVars, ledgerVars, daily_call_queue, ghlContacts, lastPreload,
                   dispatchVars>>

\* the scan visits the next row in sort order and locks it or skips it
get_next_call_batch_LockRow(i) ==
    /\ deq[i].pc = "scan"
    /\ Cardinality(deq[i].ret) < deq[i].n
    /\ \E id \in deq[i].remaining :
         /\ \A o \in deq[i].remaining : ~SortsBefore(Row(o), Row(id))
         /\ deq' = [deq EXCEPT ![i].remaining = @ \ {id},
                               ![i].ret = IF CanLock(i, id) THEN @ \cup {id} ELSE @]
    /\ lastCheck' = {}
    /\ UNCHANGED <<now, settingVars, ledgerVars, daily_call_queue, ghlContacts,
                   queueBefore, lastPreload, dispatchVars>>

\* LIMIT reached or scan exhausted: the locked rows are updated and returned
get_next_call_batch_Update(i) ==
    /\ deq[i].pc = "scan"
    /\ Cardinality(deq[i].ret) = deq[i].n \/ deq[i].remaining = {}
    /\ daily_call_queue' =
         {IF r.id \in deq[i].ret
          THEN [r EXCEPT !.status = "sent_to_n8n", !.sent_to_n8n_at = Clock,
                         !.updated_at = Clock]
          ELSE r : r \in daily_call_queue}
    /\ deq' = [deq EXCEPT ![i].pc = "idle", ![i].n = 0, ![i].remaining = {}]
    /\ lastCheck' = {}
    /\ UNCHANGED <<now, settingVars, ledgerVars, ghlContacts, queueBefore, lastPreload,
                   dispatchVars>>

\* contacts of the CRM: phone as the pair of its lead and the remaining
\* digits, lastActivity and dateAdded as <<>> when missing
GhlA == [id |-> <<"ghl", 1>>, phone |-> <<"0", "7700900123">>, lastActivity |-> <<>>,
         tags |-> {"existing lead", "hot lead"}, dateAdded |-> <<-2000>>]
GhlB == [id |-> <<"ghl", 2>>, phone |-> NULLPHONE, lastActivity |-> <<>>,
         tags |-> {"existing lead"}, dateAdded |-> <<>>]
GhlC == [id |-> <<"ghl", 3>>, phone |-> <<"+44", "7700900456">>, lastActivity |-> <<0>>,
         tags |-> {"existing lead"}, dateAdded |-> <<-1000>>]
GhlD == [id |-> <<"ghl", 4>>, phone |-> <<"0", "12345">>, lastActivity |-> <<>>,
         tags |-> {"existing lead"}, dateAdded |-> <<>>]
GhlE == [id |-> <<"ghl", 5>>, phone |-> <<"+44", "7700900789">>, lastActivity |-> <<>>,
         tags |-> {"existing lead"}, dateAdded |-> <<>>]
GhlF == [id |-> <<"ghl", 6>>, phone |-> <<"0", "7700900999">>, lastActivity |-> <<-900>>,
         tags |-> {"existing lead"}, dateAdded |-> <<-900>>]

\* a second CRM contact that carries the number of GhlA, written with +44
GhlTwin == [id |-> <<"ghl", 7>>, phone |-> <<"+44", "7700900123">>, lastActivity |-> <<>>,
            tags |-> {"existing lead"}, dateAdded |-> <<>>]

\* what the CRM search may return
GhlChoices == {<<GhlA, GhlB, GhlC>>, <<GhlA, GhlD, GhlC, GhlE, GhlF>>}

\* the numbers that are called while the queue is explored
QueuePhones == {<<"+44", "7700900123">>, <<"+447", "000000001">>}

\* a call that reached the voicemail is synced
VoicemailSynced(p) ==
    /\ Cardinality(vapi_calls) < MaxQueueCalls
    /\ VapiCallSynced(p, {"voicemail"})

InitQueue ==
    /\ now = 10
    /\ deployed = "004"
    /\ call_frequency_settings = DefaultFrequencySettings
    /\ calling_settings = [max_daily_calls |-> NULL]
    /\ call_attempts = {}
    /\ phone_number_history = {}
    /\ vapi_calls = {}
    /\ lastCheck = {}
    /\ daily_call_queue = {}
    /\ ghlContacts \in GhlChoices
    /\ deq = [i \in Invocations |-> IdleInvocation]
    /\ queueBefore = NoQueueSummary
    /\ lastPreload = NoPreload
    /\ InitNoDispatch

NextQueue ==
    \/ Tick(QueueInstants)
    \/ DailyPreloadHandler
    \/ \E i \in Invocations, n \in 1..MaxBatch :
         get_next_call_batch_Start(i, n, DateOf(now))
    \/ \E i \in Invocations : get_next_call_batch_LockRow(i)
    \/ \E i \in Invocations : get_next_call_batch_Update(i)

SpecQueue == InitQueue /\ [][NextQueue]_vars

InitPreload == InitQueue

NextPreload ==
    \/ Tick(QueueInstants)
    \/ \E p \in QueuePhones : VoicemailSynced(p)
    \/ DailyPreloadHandler
    \/ daily_preload_job
    \/ get_next_call_batch_Start(1, MaxBatch, DateOf(now))
    \/ get_next_call_batch_LockRow(1)
    \/ get_next_call_batch_Update(1)

SpecPreload == InitPreload /\ [][NextPreload]_vars

\* the CRM search returns another list from now on: contacts were added or
\* removed
GhlContactsChanged ==
    /\ \E contacts \in GhlChoices :
         contacts # ghlContacts /\ ghlContacts' = contacts
    /\ lastCheck' = {}
    /\ lastPreload' = NoPreload
    /\ UNCHANGED <<now, settingVars, ledgerVars, daily_call_queue, deq, queueBefore,
                   dispatchVars>>

\* the preload handler run again and again while calls are synced and the
\* CRM changes
NextTopUp ==
    \/ Tick(QueueInstants)
    \/ \E p \in QueuePhones : VoicemailSynced(p)
    \/ GhlContactsChanged
    \/ DailyPreloadHandler
    \/ daily_preload_job

SpecTopUp == InitQueue /\ [][NextTopUp]_vars

-----------------------------------------------------------------------------
(* The schedule predicate: should_call_now() and the copy of its logic in   *)
(* the dispatch handler.  The configured timezone is taken to have no       *)
(* offset from the database clock.                                          *)

\* EXTRACT(DOW ...) and getDay(): 0 = Sunday, 1 = Monday, ..., 6 = Saturday
current_day_of_week(t) == (((t \div 60) \div 24) + 1) % 7

current_hour(t) == (t \div 60) % 24

current_minute(t) == t % 60

\* the % of PostgreSQL and of JavaScript: the sign follows the dividend
Remainder(a, b) == IF a >= 0 THEN a % b ELSE 0 - ((0 - a) % b)

\* setting_value ->> 'value' of the calling_enabled row; NULL without a row
CallingEnabledSetting ==
    IF "calling_enabled" \in DOMAIN calling_settings
    THEN calling_settings["calling_enabled"]
    ELSE NULLTXT

\* the CASE day_type of should_call_now
DayTypeCase(day_type, dow) ==
    CASE day_type = "weekday" -> dow >= 1 /\ dow <= 5
      [] day_type = "weekend" -> dow \in {0, 6}
      [] day_type = "saturday" -> dow = 6
      [] day_type = "sunday" -> dow = 0
      [] OTHER -> FALSE

\* the start/end minute CASE of should_call_now
MinuteCase(s, t) ==
    IF s.start_hour = s.end_hour
    THEN current_minute(t) >= s.start_minute /\ current_minute(t) <= s.end_minute
    ELSE IF current_hour(t) = s.start_hour THEN current_minute(t) >= s.start_minute
    ELSE IF current_hour(t) = s.end_hour THEN current_minute(t) <= s.end_minute
    ELSE TRUE

\* the WHERE clause of the FOR loop of should_call_now
MatchesNow(s, t) ==
    /\ s.is_active
    /\ current_hour(t) >= s.start_hour
    /\ current_hour(t) <= s.end_hour
    /\ MinuteCase(s, t)
    /\ Remainder((current_hour(t) - s.start_hour) * 60
                    + (current_minute(t) - s.start_minute), s.interval_minutes) = 0
    /\ DayTypeCase(s.day_type, current_day_of_week(t))

\* the first CASE of the ORDER BY: more specific day types first
DayTypeOrder(day_type) ==
    CASE day_type \in {"saturday", "sunday"} -> 1
      [] day_type = "weekday" -> 2
      [] day_type = "weekend" -> 3
      [] OTHER -> 4

\* ORDER BY the day type CASE, start_hour, start_minute
OrderedBefore(a, b) ==
    \/ DayTypeOrder(a.day_type) < DayTypeOrder(b.day_type)
    \/ /\ DayTypeOrder(a.day_type) = DayTypeOrder(b.day_type)
       /\ \/ a.start_hour < b.start_hour
          \/ a.start_hour = b.start_hour /\ a.start_minute < b.start_minute

\* should_call_now(): the rows it can return at t (LIMIT 1 takes any of the
\* rows that sort first); current_schedule is the id of the window, 0 for NULL
should_call_now(t) ==
    LET matching == {s \in cron_schedules : MatchesNow(s, t)}
        first == {s \in matching : \A o \in matching : ~OrderedBefore(o, s)}
    IN  IF CallingEnabledSetting # "true"
        THEN {[should_call |-> FALSE, current_schedule |-> 0]}
        ELSE IF matching = {}
        THEN {[should_call |-> FALSE, current_schedule |-> 0]}
        ELSE {[should_call |-> TRUE, current_schedule |-> s.id] : s \in first}

\* the dispatch handler: dayTypeMatch
dayTypeMatch(s, t) ==
    LET dayOfWeek == current_day_of_week(t) IN
    \/ s.day_type = "weekday" /\ dayOfWeek >= 1 /\ dayOfWeek <= 5
    \/ s.day_type = "weekend" /\ (dayOfWeek = 0 \/ dayOfWeek = 6)
    \/ s.day_type = "saturday" /\ dayOfWeek = 6
    \/ s.day_type = "sunday" /\ dayOfWeek = 0

\* the dispatch handler: inTimeWindow
inTimeWindow(s, t) == current_hour(t) >= s.start_hour /\ current_hour(t) <= s.end_hour

\* the dispatch handler: totalMinutesFromStart
totalMinutesFromStart(s, t) ==
    (current_hour(t) - s.start_hour) * 60 + (current_minute(t) - s.start_minute)

\* the dispatch handler's loop over the fetched schedules: the id of the
\* first one that matches, 0 for null
RECURSIVE matchingSchedule(_, _)
matchingSchedule(schedules, t) ==
    IF schedules = <<>> THEN 0
    ELSE LET s == Head(schedules) IN
         IF /\ dayTypeMatch(s, t)
            /\ inTimeWindow(s, t)
            /\ totalMinutesFromStart(s, t) >= 0
            /\ Remainder(totalMinutesFromStart(s, t), s.interval_minutes) = 0
         THEN s.id
         ELSE matchingSchedule(Tail(schedules), t)

\* the orders in which a query without ORDER BY can return the rows of S
FetchOrders(S) ==
    {f \in [1..Cardinality(S) -> S] : \A i, j \in DOMAIN f : i # j => f[i] # f[j]}

\* an RPC to should_call_now() at the current time
ShouldCallNow ==
    /\ \E res \in should_call_now(Clock) :
         scheduleCheck' = {[at |-> Clock, res |-> res]}
    /\ UNCHANGED <<now, settingVars, ledgerVars, lastCheck, queueVars, lastPreload,
                   minute, cron_schedules, webhook_cache, dispatch, startCalling,
                   readyToCall,
                   capacityRead,
                   secondPost,
                   runnerVars>>

-----------------------------------------------------------------------------
(* The dispatch handler: schedule gate, capacity, stale recovery, dequeue,  *)
(* deduplication and handoff to the n8n webhook                             *)

Max(a, b) == IF a >= b THEN a ELSE b

Min(a, b) == IF a <= b THEN a ELSE b

\* maxDailyCalls: the setting, 30 when it is missing or falsy
maxDailyCalls ==
    IF calling_settings["max_daily_calls"] = NULL \/ calling_settings["max_daily_calls"] = 0
    THEN DefaultMaxDailyCalls
    ELSE calling_settings["max_daily_calls"]

\* outbound calls started today
outboundCompletedOrStarted ==
    Cardinality({v \in vapi_calls :
                    /\ v.call_type = "outbound"
                    /\ v.started_at # NULL
                    /\ DateOf(v.started_at) = DateOf(now)})

\* rows of today's queue in sent_to_n8n or calling
processingNow ==
    Cardinality({r \in daily_call_queue :
                    r.queue_date = DateOf(now) /\ r.status \in {"sent_to_n8n", "calling"}})

\* a capacity that leaves the rows in flight out
remainingCapacityIgnoringQueue == Max(0, maxDailyCalls - outboundCompletedOrStarted)

remainingCapacity == Max(0, maxDailyCalls - (outboundCompletedOrStarted + processingNow))

\* a recovery that resets every sent_to_n8n row of today whatever its age
AllSentRows(todayStr) ==
    {r \in daily_call_queue : r.queue_date = todayStr /\ r.status = "sent_to_n8n"}

\* the rows the two stale-recovery UPDATEs match: sent_to_n8n rows of today
\* sent before fifteenMinutesAgo, or never stamped and last updated before it
StaleRows(todayStr) ==
    LET fifteenMinutesAgo == Clock - StaleMinutes IN
    {r \in daily_call_queue :
        /\ r.queue_date = todayStr
        /\ r.status = "sent_to_n8n"
        /\ \/ r.sent_to_n8n_at # NULL /\ r.sent_to_n8n_at < fifteenMinutesAgo
           \/ r.sent_to_n8n_at = NULL /\ r.updated_at < fifteenMinutesAgo}

\* the handler up to the RPC to get_next_call_batch: settings, schedule
\* check, capacity, stale recovery; `schedules` is the fetched schedule list
\* and `cycles` the number of cycles begun so far, this one included
DispatchBegin(batchSize, bypassCRON, dryRun, schedules, cycles) ==
    LET callingEnabled == CallingEnabledSetting = "true"
        matching == matchingSchedule(schedules, Clock)
        todayStr == DateOf(now)
        effectiveBatchSize == Max(0, Min(batchSize, remainingCapacity))
        stale == StaleRows(todayStr)
        reset == {IF r \in stale
                  THEN [r EXCEPT !.status = "pending", !.updated_at = Clock,
                                 !.skip_reason = "stale_sent_to_n8n_auto_reset"]
                  ELSE r : r \in daily_call_queue}
        begun == [NoDispatch EXCEPT !.cycles = cycles,
                                    !.statusCalls = dispatch.statusCalls,
                                    !.bypassCRON = bypassCRON, !.dryRun = dryRun,
                                    !.batchSize = batchSize, !.at = Clock,
                                    !.matchingSchedule = matching]
        Return(message) ==
            /\ dispatch' = [begun EXCEPT !.pc = "done", !.message = message, !.status = 200]
            /\ UNCHANGED <<daily_call_queue, deq, queueBefore>>
    IN  /\ dispatch.pc # "rpc"
        /\ \A i \in Invocations : deq[i].pc = "idle"
        /\ IF ~callingEnabled /\ ~bypassCRON
           THEN Return("Calling is currently disabled in settings")
           ELSE IF matching = 0 /\ ~bypassCRON
           THEN Return("Outside scheduled calling hours")
           ELSE IF remainingCapacity <= 0
           THEN Return("No remaining daily capacity. Skipping dequeue.")
           ELSE IF effectiveBatchSize = 0
           THEN Return("Effective batch size is zero after capacity clamp. Skipping dequeue.")
           ELSE /\ daily_call_queue' = reset
                /\ deq' = [i \in Invocations |->
                             IF i = 1
                             THEN StartedInvocation(reset, effectiveBatchSize, todayStr)
                             ELSE IdleInvocation]
                /\ queueBefore' =
                     [pending |-> {r.id : r \in {q \in reset : q.status = "pending"}},
                      maxId |-> MaxId]
                /\ dispatch' = [begun EXCEPT !.pc = "rpc",
                                             !.effectiveBatchSize = effectiveBatchSize,
                                             !.staleReset = {r.id : r \in stale}]
        /\ lastCheck' = {}
        /\ UNCHANGED <<now, settingVars, ledgerVars, ghlContacts, lastPreload,
                       minute, cron_schedules, webhook_cache, scheduleCheck, startCalling,
                   readyToCall,
                   capacityRead,
                   secondPost,
                   runnerVars>>

\* a dispatch cycle, counted
DispatchStart(batchSize, bypassCRON, dryRun, schedules) ==
    /\ dispatch.cycles < MaxCycles
    /\ DispatchBegin(batchSize, bypassCRON, dryRun, schedules, dispatch.cycles + 1)

\* a dispatch cycle of a trigger that keeps firing: the count stops at
\* MaxCycles
DispatchTriggered(batchSize, schedules) ==
    DispatchBegin(batchSize, FALSE, FALSE, schedules, Min(dispatch.cycles + 1, MaxCycles))

\* an overlapping invocation of the handler, first part: settings, schedule
\* check and the capacity calculation; it stops before the stale recovery
\* while the other invocation runs
DispatchReadCapacity(schedules) ==
    LET callingEnabled == CallingEnabledSetting = "true"
        matching == matchingSchedule(schedules, Clock)
    IN  /\ capacityRead.pc = "none"
        /\ dispatch.cycles < MaxCycles
        /\ callingEnabled
        /\ matching # 0
        /\ remainingCapacity > 0
        /\ capacityRead' = [pc |-> "read", remainingCapacity |-> remainingCapacity,
                            matchingSchedule |-> matching, at |-> Clock]
        /\ lastCheck' = {}
        /\ UNCHANGED <<now, settingVars, ledgerVars, queueVars, ghlContacts, lastPreload,
                       minute, cron_schedules, webhook_cache, scheduleCheck, dispatch,
                       startCalling, readyToCall,
                   secondPost,
                   runnerVars>>

\* the overlapping invocation, second part: the batch clamp with the
\* capacity it computed, the stale recovery and the RPC to
\* get_next_call_batch
DispatchResume(batchSize, dryRun) ==
    LET todayStr == DateOf(now)
        effectiveBatchSize == Max(0, Min(batchSize, capacityRead.remainingCapacity))
        stale == StaleRows(todayStr)
        reset == {IF r \in stale
                  THEN [r EXCEPT !.status = "pending", !.updated_at = Clock,
                                 !.skip_reason = "stale_sent_to_n8n_auto_reset"]
                  ELSE r : r \in daily_call_queue}
        begun == [NoDispatch EXCEPT !.cycles = dispatch.cycles + 1,
                                    !.statusCalls = dispatch.statusCalls,
                                    !.dryRun = dryRun,
                                    !.batchSize = batchSize, !.at = capacityRead.at,
                                    !.matchingSchedule = capacityRead.matchingSchedule]
    IN  /\ capacityRead.pc = "read"
        /\ dispatch.pc # "rpc"
        /\ dispatch.cycles < MaxCycles
        /\ \A i \in Invocations : deq[i].pc = "idle"
        /\ capacityRead' = NoCapacityRead
        /\ IF effectiveBatchSize = 0
           THEN /\ dispatch' =
                     [begun EXCEPT !.pc = "done", !.status = 200, !.message =
                        "Effective batch size is zero after capacity clamp. Skipping dequeue."]
                /\ UNCHANGED <<daily_call_queue, deq, queueBefore>>
           ELSE /\ daily_call_queue' = reset
                /\ deq' = [i \in Invocations |->
                             IF i = 1
                             THEN StartedInvocation(reset, effectiveBatchSize, todayStr)
                             ELSE IdleInvocation]
                /\ queueBefore' =
                     [pending |-> {r.id : r \in {q \in reset : q.status = "pending"}},
                      maxId |-> MaxId]
                /\ dispatch' = [begun EXCEPT !.pc = "rpc",
                                             !.effectiveBatchSize = effectiveBatchSize,
                                             !.staleReset = {r.id : r \in stale}]
        /\ lastCheck' = {}
        /\ UNCHANGED <<now, settingVars, ledgerVars, ghlContacts, lastPreload,
                       minute, cron_schedules, webhook_cache, scheduleCheck, startCalling,
                       readyToCall,
                   secondPost,
                   runnerVars>>

\* filter_recently_sent_contacts(p_contact_ids, p_webhook_url,
\* p_minutes_threshold): the ids without a cache entry for the webhook that
\* is younger than the threshold
filter_recently_sent_contacts(p_contact_ids, p_webhook_url, p_minutes_threshold) ==
    {c \in p_contact_ids :
        ~\E wc \in webhook_cache :
            /\ wc.contact_id = c
            /\ wc.webhook_url = p_webhook_url
            /\ wc.last_sent_at > Clock - p_minutes_threshold}

\* record_sent_contacts(p_contact_data, p_webhook_url): one cache entry per
\* contact and webhook, stamped with the time of the send
record_sent_contacts(p_contact_ids, p_webhook_url) ==
    {wc \in webhook_cache :
        ~(wc.contact_id \in p_contact_ids /\ wc.webhook_url = p_webhook_url)}
    \cup {[contact_id |-> c, webhook_url |-> p_webhook_url, last_sent_at |-> Clock] :
            c \in p_contact_ids}

\* String(c.phone) of a contact handed to sendContactsToN8N
PhoneString(phone) == IF phone = NULLPHONE THEN <<"undefined", "">> ELSE phone

\* UPDATE daily_call_queue SET status ... WHERE queue_date = todayStr AND
\* phone_number IN phoneNumbers AND status = 'sent_to_n8n'
MarkDispatched(todayStr, phoneNumbers, status, skip_reason) ==
    {IF /\ r.queue_date = todayStr
        /\ r.phone_number \in phoneNumbers
        /\ r.status = "sent_to_n8n"
     THEN [r EXCEPT !.status = status, !.updated_at = Clock,
                    !.skip_reason = IF skip_reason = NULLTXT THEN @ ELSE skip_reason]
     ELSE r : r \in daily_call_queue}

\* the handler from the return of get_next_call_batch on: deduplication and
\* sendContactsToN8N; filterError, n8nResponse and recordError are what the
\* two RPCs and the webhook answer
DispatchSend(filterError, n8nResponse, recordError) ==
    LET queueContacts == {Row(id) : id \in deq[1].ret}
        finalContacts == {[id |-> qc.contact_id, phone |-> qc.contact_data.phone] :
                             qc \in queueContacts}
        contactIds == {c.id : c \in finalContacts}
        deduplicatedIds ==
            IF filterError THEN contactIds
            ELSE filter_recently_sent_contacts(contactIds, n8nWebhookUrl, DedupeMinutes)
        deduplicatedContacts == {c \in finalContacts : c.id \in deduplicatedIds}
        phoneNumbers == {PhoneString(c.phone) : c \in deduplicatedContacts}
        todayStr == DateOf(now)
        Return(message) ==
            /\ dispatch' = [dispatch EXCEPT !.pc = "done", !.message = message,
                                            !.status = 200, !.filterError = filterError]
            /\ UNCHANGED <<daily_call_queue, webhook_cache, startCalling,
                   readyToCall,
                   capacityRead,
                   secondPost,
                   runnerVars>>
    IN  /\ dispatch.pc = "rpc"
        /\ deq[1].pc = "idle"
        /\ IF queueContacts = {}
           THEN Return("No pending contacts in daily queue")
           ELSE IF deduplicatedContacts = {}
           THEN Return("All contacts filtered out by webhook deduplication")
           ELSE IF dispatch.dryRun
           THEN Return("DRY RUN")
           ELSE IF n8nResponse = "2xx"
           THEN /\ webhook_cache' =
                     IF recordError THEN webhook_cache
                     ELSE record_sent_contacts({c.id : c \in deduplicatedContacts},
                                               n8nWebhookUrl)
                /\ daily_call_queue' = MarkDispatched(todayStr, phoneNumbers, "calling", NULLTXT)
                /\ dispatch' = [dispatch EXCEPT !.pc = "done", !.filterError = filterError,
                                                !.handed = {c.id : c \in deduplicatedContacts},
                                                !.phoneNumbers = phoneNumbers,
                                                !.handoff = "ok",
                                                !.message = "Unified 2-WEEK cooldown complete",
                                                !.status = 200]
           ELSE /\ daily_call_queue' =
                     MarkDispatched(todayStr, phoneNumbers, "pending", "n8n_webhook_failed")
                /\ dispatch' = [dispatch EXCEPT !.pc = "done", !.filterError = filterError,
                                                !.handed = {c.id : c \in deduplicatedContacts},
                                                !.phoneNumbers = phoneNumbers,
                                                !.handoff = "failed",
                                                !.message = "error",
                                                !.status = 500]
                /\ UNCHANGED webhook_cache
        /\ lastCheck' = {}
        /\ UNCHANGED <<now, settingVars, ledgerVars, ghlContacts, deq, queueBefore,
                       lastPreload, minute, cron_schedules, scheduleCheck, startCalling,
                   readyToCall,
                   capacityRead,
                   secondPost,
                   runnerVars>>

-----------------------------------------------------------------------------
(* Other writers of daily_call_queue.status *)

\* the CHECK constraint on daily_call_queue.status
QueueStatuses == {"pending", "sent_to_n8n", "calling", "completed", "failed", "skipped"}

\* update_queue_status(p_contact_id, p_status): the rows of the contact for
\* CURRENT_DATE take the status; the UPDATE waits while a dequeue holds one
\* of them locked
update_queue_status(p_contact_id, p_status) ==
    /\ dispatch.statusCalls < MaxStatusCalls
    /\ \A r \in daily_call_queue :
          (r.contact_id = p_contact_id /\ r.queue_date = DateOf(now)) =>
              \A i \in Invocations : r.id \notin LockedBy(i)
    /\ daily_call_queue' =
         {IF r.contact_id = p_contact_id /\ r.queue_date = DateOf(now)
          THEN [r EXCEPT !.status = p_status, !.updated_at = Clock]
          ELSE r : r \in daily_call_queue}
    /\ dispatch' = [dispatch EXCEPT !.statusCalls = @ + 1]
    /\ lastCheck' = {}
    /\ UNCHANGED <<now, settingVars, ledgerVars, ghlContacts, deq, queueBefore,
                   lastPreload, minute, cron_schedules, webhook_cache, scheduleCheck, startCalling,
                   readyToCall,
                   capacityRead,
                   secondPost,
                   runnerVars>>

\* process-call-analysis picks a call that has ended and awaits analysis
\* and marks it as processing; the trigger on vapi_calls fires
ProcessCallAnalysis_Mark(call) ==
    LET new == [call EXCEPT !.ai_analysis_status = "processing"] IN
    /\ call \in vapi_calls
    /\ call.ai_analysis_status = NULLTXT
    /\ call.ended_reason # NULLTXT
    /\ vapi_calls' = (vapi_calls \ {call}) \cup {new}
    /\ trigger_record_call_attempt(new)
    /\ lastCheck' = {}
    /\ lastPreload' = NoPreload
    /\ UNCHANGED <<now, settingVars, queueVars, dispatchVars>>

\* process-call-analysis stores the analysis of the call (the trigger fires)
\* and, for an outbound call, the sent_to_n8n rows of the call's date and
\* number become completed; aiAnalysis is what the analysis of the
\* transcript reports
ProcessCallAnalysis_Update(call, aiAnalysis) ==
    LET new == [call EXCEPT !.ai_analysis_status = "completed",
                            !.asked_explicitly_to_not_call_again =
                                aiAnalysis.asked_explicitly_to_NOT_call_again] IN
    /\ call \in vapi_calls
    /\ call.ai_analysis_status = "processing"
    /\ vapi_calls' = (vapi_calls \ {call}) \cup {new}
    /\ trigger_record_call_attempt(new)
    /\ daily_call_queue' =
         IF call.call_type = "outbound" /\ call.phone_number # NULLPHONE
         THEN {IF /\ r.phone_number = call.phone_number
                  /\ r.queue_date = DateOf(call.started_at)
                  /\ r.status = "sent_to_n8n"
               THEN [r EXCEPT !.status = "completed", !.updated_at = Clock]
               ELSE r : r \in daily_call_queue}
         ELSE daily_call_queue
    /\ lastCheck' = {}
    /\ lastPreload' = NoPreload
    /\ UNCHANGED <<now, settingVars, ghlContacts, deq, queueBefore, dispatchVars>>

-----------------------------------------------------------------------------
(* Specifications of the schedule gate and of the dispatch cycle *)

\* schedule windows: weekend 10:00-18:00 every 10, saturday 10:00-11:00
\* every 5, weekday 08:15-08:45 every 5, weekday 08:30-10:15 every 15, and a
\* window that is switched off
WeekendWindow ==
    [id |-> 1, day_type |-> "weekend", start_hour |-> 10, start_minute |-> 0,
     end_hour |-> 18, end_minute |-> 0, interval_minutes |-> 10, is_active |-> TRUE]
SaturdayWindow ==
    [id |-> 2, day_type |-> "saturday", start_hour |-> 10, start_minute |-> 0,
     end_hour |-> 11, end_minute |-> 0, interval_minutes |-> 5, is_active |-> TRUE]
MorningWindow ==
    [id |-> 3, day_type |-> "weekday", start_hour |-> 8, start_minute |-> 15,
     end_hour |-> 8, end_minute |-> 45, interval_minutes |-> 5, is_active |-> TRUE]
LongWindow ==
    [id |-> 4, day_type |-> "weekday", start_hour |-> 8, start_minute |-> 30,
     end_hour |-> 10, end_minute |-> 15, interval_minutes |-> 15, is_active |-> TRUE]
InactiveWindow ==
    [id |-> 5, day_type |-> "weekday", start_hour |-> 0, start_minute |-> 0,
     end_hour |-> 23, end_minute |-> 59, interval_minutes |-> 5, is_active |-> FALSE]

\* the contents of cron_schedules that are explored
ScheduleChoices ==
    {{WeekendWindow, SaturdayWindow, MorningWindow, InactiveWindow},
     {LongWindow, MorningWindow}}

\* the instants (minutes since Monday 00:00) at which the schedule gate is
\* explored: Mon 08:10 08:15 08:30 08:45 08:50 09:00 10:15
\* 10:30, Sat 10:00 10:05 10:10, Sun 10:00
ScheduleInstants == {490, 495, 510, 525, 530, 540, 615, 630, 7800, 7805, 7810, 9240}

\* the instants the clock visits when the dispatch cycle is explored:
\* Mon 08:15 08:30 08:35 08:45
DispatchInstants == {495, 510, 515, 525}

\* the database clock moves on to a later minute
TickMinutes(instants) ==
    /\ \E t \in instants : t > Clock /\ now' = t \div 60 /\ minute' = t % 60
    /\ lastCheck' = {}
    /\ lastPreload' = NoPreload
    /\ scheduleCheck' = {}
    /\ UNCHANGED <<settingVars, ledgerVars, queueVars, cron_schedules, webhook_cache,
                   dispatch, startCalling,
                   readyToCall,
                   capacityRead,
                   secondPost,
                   runnerVars>>

\* the schedule rows a SELECT ... WHERE is_active = true returns, in any order
ActiveSchedules == FetchOrders({s \in cron_schedules : s.is_active})

InitSchedule ==
    /\ \E t \in ScheduleInstants : now = t \div 60 /\ minute = t % 60
    /\ deployed = "004"
    /\ call_frequency_settings = DefaultFrequencySettings
    /\ calling_settings \in
         {[max_daily_calls |-> NULL],
          [max_daily_calls |-> NULL, calling_enabled |-> "true"],
          [max_daily_calls |-> NULL, calling_enabled |-> "false"]}
    /\ call_attempts = {}
    /\ phone_number_history = {}
    /\ vapi_calls = {}
    /\ lastCheck = {}
    /\ daily_call_queue = {}
    /\ ghlContacts = <<GhlA, GhlB, GhlC>>
    /\ deq = [i \in Invocations |-> IdleInvocation]
    /\ queueBefore = NoQueueSummary
    /\ lastPreload = NoPreload
    /\ cron_schedules \in ScheduleChoices
    /\ webhook_cache = {}
    /\ dispatch = NoDispatch
    /\ scheduleCheck = {}
    /\ startCalling = NoStartCalling
    /\ InitNoRunner
    /\ secondPost = NoSecondPost
    /\ capacityRead = NoCapacityRead
    /\ readyToCall = {}

NextSchedule ==
    \/ ShouldCallNow
    \/ DailyPreloadHandler
    \/ \E bypassCRON \in BOOLEAN, schedules \in ActiveSchedules :
         DispatchStart(MaxBatch, bypassCRON, FALSE, schedules)
    \/ get_next_call_batch_LockRow(1)
    \/ get_next_call_batch_Update(1)
    \/ DispatchSend(FALSE, "2xx", FALSE)

SpecSchedule == InitSchedule /\ [][NextSchedule]_vars

\* the numbers the provider reports calls to while dispatch is explored
DispatchPhones == {<<"+44", "7700900123">>}

\* the call statuses and the ended reason the provider reports
DispatchCallStatuses == {"in-progress", "ended", "failed"}

\* what the webhook answers: a 2xx status, another status, or no answer
N8nResponses == {"2xx", "500", "network error"}

\* a call of the provider is synced while dispatch is explored
DispatchCallSynced(p) ==
    /\ Cardinality(vapi_calls) < MaxQueueCalls
    /\ VapiSyncCall(p, DispatchCallStatuses, {"customer-did-not-answer"}, {now})

\* the queue the daily preload handler leaves when it runs on an empty
\* table
PreloadedQueue ==
    LET eligibleContacts == EligibleContacts(ghlContacts, <<>>, targetTotal) IN
    {QueueRow(k, DateOf(now), eligibleContacts[k]) : k \in DOMAIN eligibleContacts}

InitDispatch ==
    /\ now = 8
    /\ minute = 15
    /\ deployed = "004"
    /\ call_frequency_settings = DefaultFrequencySettings
    /\ calling_settings = [max_daily_calls |-> 3, calling_enabled |-> "true"]
    /\ call_attempts = {}
    /\ phone_number_history = {}
    /\ vapi_calls = {}
    /\ lastCheck = {}
    /\ ghlContacts = <<GhlA, GhlB, GhlC>>
    /\ daily_call_queue = PreloadedQueue
    /\ deq = [i \in Invocations |-> IdleInvocation]
    /\ queueBefore = NoQueueSummary
    /\ lastPreload = NoPreload
    /\ cron_schedules = {MorningWindow}
    /\ webhook_cache = {}
    /\ dispatch = NoDispatch
    /\ scheduleCheck = {}
    /\ startCalling = NoStartCalling
    /\ InitNoRunner
    /\ secondPost = NoSecondPost
    /\ capacityRead = NoCapacityRead
    /\ readyToCall = {}

\* a dispatch cycle ends within the minute in which it started
BetweenCycles == dispatch.pc # "rpc"

NextDispatch ==
    \/ BetweenCycles /\ TickMinutes(DispatchInstants)
    \/ \E batchSize \in 0..MaxBatch, dryRun \in BOOLEAN, schedules \in ActiveSchedules :
         DispatchStart(batchSize, FALSE, dryRun, schedules)
    \/ get_next_call_batch_LockRow(1)
    \/ get_next_call_batch_Update(1)
    \/ \E filterError \in BOOLEAN, n8nResponse \in N8nResponses, recordError \in BOOLEAN :
         DispatchSend(filterError, n8nResponse, recordError)
    \/ \E p \in DispatchPhones : DispatchCallSynced(p)

SpecDispatch == InitDispatch /\ [][NextDispatch]_vars

\* max_daily_calls of the day on which overlapping cycles are explored
OverlapMaxDaily == {1, 2}

InitOverlap ==
    /\ now = 8
    /\ minute = 15
    /\ deployed = "004"
    /\ call_frequency_settings = DefaultFrequencySettings
    /\ \E m \in OverlapMaxDaily :
         calling_settings = [max_daily_calls |-> m, calling_enabled |-> "true"]
    /\ call_attempts = {}
    /\ phone_number_history = {}
    /\ vapi_calls = {}
    /\ lastCheck = {}
    /\ ghlContacts = <<GhlA, GhlB, GhlC>>
    /\ daily_call_queue = PreloadedQueue
    /\ deq = [i \in Invocations |-> IdleInvocation]
    /\ queueBefore = NoQueueSummary
    /\ lastPreload = NoPreload
    /\ cron_schedules = {MorningWindow}
    /\ webhook_cache = {}
    /\ dispatch = NoDispatch
    /\ scheduleCheck = {}
    /\ startCalling = NoStartCalling
    /\ InitNoRunner
    /\ secondPost = NoSecondPost
    /\ capacityRead = NoCapacityRead
    /\ readyToCall = {}

\* two invocations of the dispatch handler on one day; the second reads its
\* capacity at any point of the first and goes on when the first has returned
NextOverlap ==
    \/ BetweenCycles /\ capacityRead.pc = "none" /\ TickMinutes(DispatchInstants)
    \/ \E batchSize \in 1..MaxBatch, schedules \in ActiveSchedules :
         DispatchStart(batchSize, FALSE, FALSE, schedules)
    \/ \E schedules \in ActiveSchedules : DispatchReadCapacity(schedules)
    \/ \E batchSize \in 1..MaxBatch : DispatchResume(batchSize, FALSE)
    \/ get_next_call_batch_LockRow(1)
    \/ get_next_call_batch_Update(1)
    \/ \E filterError \in BOOLEAN, n8nResponse \in N8nResponses, recordError \in BOOLEAN :
         DispatchSend(filterError, n8nResponse, recordError)

SpecOverlap == InitOverlap /\ [][NextOverlap]_vars

\* the instants the clock visits when the writers of the queue status are
\* explored: Mon 08:15 08:30 08:35
StatusInstants == {495, 510, 515}

\* every writer of daily_call_queue.status that runs during a day
NextStatus ==
    \/ BetweenCycles /\ TickMinutes(StatusInstants)
    \/ \E schedules \in ActiveSchedules : DispatchStart(MaxBatch, FALSE, FALSE, schedules)
    \/ get_next_call_batch_LockRow(1)
    \/ get_next_call_batch_Update(1)
    \/ \E n8nResponse \in N8nResponses : DispatchSend(FALSE, n8nResponse, FALSE)
    \/ \E p \in DispatchPhones : DispatchCallSynced(p)
    \/ \E call \in vapi_calls : ProcessCallAnalysis_Mark(call)
    \/ \E call \in vapi_calls, asked \in BOOLEAN :
         ProcessCallAnalysis_Update(call, [asked_explicitly_to_NOT_call_again |-> asked])
    \/ \E r \in daily_call_queue, p_status \in QueueStatuses :
         update_queue_status(r.contact_id, p_status)

SpecStatus == InitDispatch /\ [][NextStatus]_vars

\* the dispatch cycles and the rows put into sent_to_n8n by hand
NextStale ==
    \/ BetweenCycles /\ TickMinutes(DispatchInstants)
    \/ \E batchSize \in 1..MaxBatch, schedules \in ActiveSchedules :
         DispatchStart(batchSize, FALSE, FALSE, schedules)
    \/ get_next_call_batch_LockRow(1)
    \/ get_next_call_batch_Update(1)
    \/ \E n8nResponse \in N8nResponses : DispatchSend(FALSE, n8nResponse, FALSE)
    \/ \E r \in daily_call_queue : update_queue_status(r.contact_id, "sent_to_n8n")

SpecStale == InitDispatch /\ [][NextStale]_vars

\* the day starts with a queue preloaded from a CRM list in which two
\* contacts carry one number
InitTwin ==
    /\ now = 8
    /\ minute = 15
    /\ deployed = "004"
    /\ call_frequency_settings = DefaultFrequencySettings
    /\ calling_settings = [max_daily_calls |-> 3, calling_enabled |-> "true"]
    /\ call_attempts = {}
    /\ phone_number_history = {}
    /\ vapi_calls = {}
    /\ lastCheck = {}
    /\ ghlContacts \in {<<GhlA, GhlTwin, GhlC>>, <<GhlTwin, GhlC, GhlA>>}
    /\ daily_call_queue = PreloadedQueue
    /\ deq = [i \in Invocations |-> IdleInvocation]
    /\ queueBefore = NoQueueSummary
    /\ lastPreload = NoPreload
    /\ cron_schedules = {MorningWindow}
    /\ webhook_cache = {}
    /\ dispatch = NoDispatch
    /\ scheduleCheck = {}
    /\ startCalling = NoStartCalling
    /\ InitNoRunner
    /\ secondPost = NoSecondPost
    /\ capacityRead = NoCapacityRead
    /\ readyToCall = {}

SpecTwin == InitTwin /\ [][NextDispatch]_vars

\* the instants the clock visits while rows are stuck: Mon 08:15 08:35,
\* both inside the weekday window
StuckInstants == {495, 515}

\* the clock moves on while no cycle is running
StuckTick == BetweenCycles /\ TickMinutes(StuckInstants)

\* the trigger fires again
StuckTrigger ==
    \E batchSize \in 1..MaxBatch, schedules \in ActiveSchedules :
        DispatchTriggered(batchSize, schedules)

\* the cycle goes on after the RPC has returned
StuckSend ==
    \E filterError \in BOOLEAN, n8nResponse \in N8nResponses, recordError \in BOOLEAN :
        DispatchSend(filterError, n8nResponse, recordError)

\* dispatch cycles that keep being triggered inside the window while nothing
\* downstream reports a call
NextStuck ==
    \/ StuckTick
    \/ StuckTrigger
    \/ get_next_call_batch_LockRow(1)
    \/ get_next_call_batch_Update(1)
    \/ StuckSend

\* the cron job fires every minute, the clock advances, and a handler that
\* has started runs to its end
SpecStuck ==
    /\ InitOverlap
    /\ [][NextStuck]_vars
    /\ WF_vars(StuckTick)
    /\ WF_vars(StuckTrigger)
    /\ WF_vars(get_next_call_batch_LockRow(1))
    /\ WF_vars(get_next_call_batch_Update(1))
    /\ WF_vars(StuckSend)

-----------------------------------------------------------------------------
(* get_numbers_ready_to_call *)

\* EXTRACT(DAYS FROM (p_current_time - last_pickup_call)): the whole days of
\* the interval, truncated toward zero
ExtractDays(hours) == IF hours >= 0 THEN hours \div 24 ELSE -((-hours) \div 24)

\* a CASE whose last branch stops at zero
PriorityCaseFloored(pnh, p_current_time) ==
    IF pnh.last_pickup_call = NULL THEN 100
    ELSE IF pnh.last_successful_call = NULL THEN 80
    ELSE Max(0, 60 - ExtractDays(p_current_time - pnh.last_pickup_call))

\* the priority CASE of get_numbers_ready_to_call
PriorityCase(pnh, p_current_time) ==
    IF pnh.last_pickup_call = NULL THEN 100
    ELSE IF pnh.last_successful_call = NULL THEN 80
    ELSE 60 - ExtractDays(p_current_time - pnh.last_pickup_call)

\* the rows of the CTE callable_numbers that can be called, when the
\* server resolves name conflicts as variable_conflict says
callable_numbers(p_current_time, variable_conflict) ==
    {[phone_number |-> pnh.phone_number,
      can_call |-> TRUE,
      reason |-> should_call_phone_number_004(pnh.phone_number, p_current_time,
                                              variable_conflict).reason,
      priority_score |-> PriorityCase(pnh, p_current_time)] :
        pnh \in {h \in phone_number_history :
                    /\ ~h.permanent_dnc
                    /\ should_call_phone_number_004(h.phone_number, p_current_time,
                                                    variable_conflict).can_call}}

\* get_numbers_ready_to_call(p_limit, p_current_time): ORDER BY
\* priority_score DESC, random() LIMIT p_limit returns any p_limit rows no
\* other row outranks; it reads the column can_call, which only migration
\* 004's should_call_phone_number returns
get_numbers_ready_to_call(p_limit, p_current_time) ==
    IF deployed # "004" THEN {{}}
    ELSE UNION {
        LET rows == callable_numbers(p_current_time, c) IN
        {top \in SUBSET rows :
            /\ Cardinality(top) = Min(p_limit, Cardinality(rows))
            /\ \A r \in top : \A o \in rows \ top :
                  o.priority_score <= r.priority_score} :
        c \in VariableConflict}

\* an RPC to get_numbers_ready_to_call at the current time
GetNumbersReadyToCall(p_limit) ==
    /\ readyToCall' \in get_numbers_ready_to_call(p_limit, now)
    /\ UNCHANGED <<now, settingVars, ledgerVars, lastCheck, queueVars, lastPreload,
                   minute, cron_schedules, webhook_cache, dispatch, scheduleCheck,
                   startCalling,
                   capacityRead,
                   secondPost,
                   runnerVars>>

\* the instants the clock visits when the priority scores are explored:
\* Mon 10:00, and Mon 10:00 of the weeks 1 and 9 after it
PriorityInstants == {10, 178, 1522}

\* the ended reasons of the calls synced while the scores are explored
PriorityReasons == {"customer-did-not-answer", "customer-ended-call"}

InitPriority ==
    /\ now = 10
    /\ deployed = "004"
    /\ call_frequency_settings = DefaultFrequencySettings
    /\ calling_settings = [max_daily_calls |-> NULL]
    /\ call_attempts = {}
    /\ phone_number_history = {}
    /\ vapi_calls = {}
    /\ lastCheck = {}
    /\ daily_call_queue = {}
    /\ ghlContacts \in GhlChoices
    /\ deq = [i \in Invocations |-> IdleInvocation]
    /\ queueBefore = NoQueueSummary
    /\ lastPreload = NoPreload
    /\ InitNoDispatch

NextPriority ==
    \/ Tick(PriorityInstants)
    \/ \E p \in Phones : VapiCallSynced(p, PriorityReasons)
    \/ DailyPreloadHandler
    \/ \E p_limit \in 1..2 : GetNumbersReadyToCall(p_limit)

SpecPriority == InitPriority /\ [][NextPriority]_vars

-----------------------------------------------------------------------------
(* The start-calling edge function: the POST request that places calls *)

\* formatPhoneForCheck(phone)
formatPhoneForCheck(phone) ==
    IF phone[1] = "+44" THEN phone
    ELSE IF phone[1] = "0" THEN <<"+44", phone[2]>>
    ELSE phone

\* the filter that drops the contacts without a phone and those whose
\* normalised phone was seen earlier in the list
RECURSIVE DedupByPhone(_, _)
DedupByPhone(contacts, seenNumbers) ==
    IF contacts = <<>> THEN <<>>
    ELSE LET c == Head(contacts)
             norm == formatPhoneForCheck(c.phone)
         IN  IF norm = NULLPHONE \/ norm \in seenNumbers
             THEN DedupByPhone(Tail(contacts), seenNumbers)
             ELSE <<c>> \o DedupByPhone(Tail(contacts), seenNumbers \cup {norm})

\* callCheck?.can_call: falsy when the RPC failed or the row has no such column
CallCheckCanCall(res) == "can_call" \in DOMAIN res /\ res.can_call

\* the duplicate-prevention loop: the contacts whose check by
\* should_call_phone_number says can_call, in the order of the list; one
\* list for every way the checks can answer
RECURSIVE CallableContacts(_)
CallableContacts(contacts) ==
    IF contacts = <<>> THEN {<<>>}
    ELSE LET contact == Head(contacts)
             answers == {CallCheckCanCall(res) :
                           res \in should_call_phone_number(
                                      formatPhoneForCheck(contact.phone), now)}
         IN  {IF can_call THEN <<contact>> \o rest ELSE rest :
                 can_call \in answers, rest \in CallableContacts(Tail(contacts))}

\* a loop without a try block of its own: the error reaches the catch of the
\* handler, which answers 500
CatchOutsideLoop(sc, contact, error) ==
    [sc EXCEPT !.pc = "done", !.status = 500]

\* the catch block inside the loop: the failure is recorded and the loop
\* goes on with the next contact
CatchInLoop(sc, contact, error) ==
    [sc EXCEPT !.results = Append(@, [contact_id |-> contact.id,
                                      phone_number |-> contact.phone,
                                      success |-> FALSE, error |-> error]),
               !.errorCount = @ + 1,
               !.pos = @ + 1]

\* the POST request up to the calling loop: the contacts are fetched,
\* de-duplicated, cut to the batch size and checked
StartCallingPost(uiBatchSize) ==
    LET deduped == DedupByPhone(ghlContacts, {})
        fetched == SubSeq(deduped, 1, Min(uiBatchSize, Len(deduped)))
        Answered == [NoStartCalling EXCEPT !.pc = "done", !.status = 200]
    IN  /\ startCalling.pc # "loop"
        /\ \E callableContacts \in CallableContacts(fetched) :
             startCalling' =
                 IF Len(fetched) = 0 \/ Len(callableContacts) = 0
                 THEN Answered
                 ELSE [NoStartCalling EXCEPT !.pc = "loop",
                                             !.callableContacts = callableContacts,
                                             !.pos = 1]
        /\ lastCheck' = {}
        /\ lastPreload' = NoPreload
        /\ UNCHANGED <<now, settingVars, ledgerVars, queueVars, minute, cron_schedules,
                       webhook_cache, dispatch, scheduleCheck, readyToCall,
                       capacityRead, secondPost,
                   runnerVars>>

\* one pass of the calling loop for the next callable contact: callResult
\* is what createVAPICall returned, rpc what the RPC to record_call_attempt
\* did (getOpenAIPronunciation and createVAPICall catch their own errors)
StartCallingContact(callResult, rpc) ==
    LET contact == startCalling.callableContacts[startCalling.pos]
        pushed == [startCalling EXCEPT
                     !.results = Append(@, [contact_id |-> contact.id,
                                            phone_number |-> contact.phone,
                                            success |-> callResult.success,
                                            error |-> callResult.error]),
                     !.successCount = IF callResult.success THEN @ + 1 ELSE @,
                     !.errorCount = IF callResult.success THEN @ ELSE @ + 1,
                     !.pos = @ + 1]
    IN  /\ startCalling.pc = "loop"
        /\ startCalling.pos <= Len(startCalling.callableContacts)
        /\ IF callResult.success /\ rpc = "recorded"
           THEN record_call_attempt(formatPhoneForCheck(contact.phone),
                                    "initiated", NULLTXT, now)
           ELSE UNCHANGED <<call_attempts, phone_number_history>>
        /\ startCalling' =
             IF callResult.success /\ rpc = "thrown"
             THEN CatchInLoop(startCalling, contact, "TypeError: fetch failed")
             ELSE pushed
        /\ lastCheck' = {}
        /\ lastPreload' = NoPreload
        /\ UNCHANGED <<now, settingVars, vapi_calls, queueVars, minute, cron_schedules,
                       webhook_cache, dispatch, scheduleCheck, readyToCall,
                       capacityRead, secondPost,
                   runnerVars>>

\* the loop has gone through the callable contacts: the summary is returned
StartCallingRespond ==
    /\ startCalling.pc = "loop"
    /\ startCalling.pos > Len(startCalling.callableContacts)
    /\ startCalling' = [startCalling EXCEPT !.pc = "done", !.status = 200]
    /\ lastCheck' = {}
    /\ lastPreload' = NoPreload
    /\ UNCHANGED <<now, settingVars, ledgerVars, queueVars, minute, cron_schedules,
                   webhook_cache, dispatch, scheduleCheck, readyToCall,
                       capacityRead, secondPost,
                   runnerVars>>

\* a second POST that overlaps the first, up to the calling loop: its
\* contacts are fetched, de-duplicated, cut to the batch size and checked
\* against the ledger as it is now
StartCallingSecondPost(uiBatchSize) ==
    LET deduped == DedupByPhone(ghlContacts, {})
        fetched == SubSeq(deduped, 1, Min(uiBatchSize, Len(deduped)))
    IN  /\ secondPost.pc = "none"
        /\ \E callableContacts \in CallableContacts(fetched) :
             /\ Len(callableContacts) > 0
             /\ secondPost' = [pc |-> "checked", callableContacts |-> callableContacts]
        /\ lastCheck' = {}
        /\ lastPreload' = NoPreload
        /\ UNCHANGED <<now, settingVars, ledgerVars, queueVars, minute, cron_schedules,
                       webhook_cache, dispatch, scheduleCheck, readyToCall,
                       capacityRead, startCalling,
                   runnerVars>>

\* the second POST enters its calling loop with the contacts it checked
StartCallingSecondLoop ==
    /\ secondPost.pc = "checked"
    /\ startCalling.pc # "loop"
    /\ startCalling' = [NoStartCalling EXCEPT !.pc = "loop",
                                              !.callableContacts = secondPost.callableContacts,
                                              !.pos = 1]
    /\ secondPost' = NoSecondPost
    /\ lastCheck' = {}
    /\ lastPreload' = NoPreload
    /\ UNCHANGED <<now, settingVars, ledgerVars, queueVars, minute, cron_schedules,
                   webhook_cache, dispatch, scheduleCheck, readyToCall,
                   capacityRead,
                   runnerVars>>

\* what createVAPICall returns
CallResults ==
    {[success |-> TRUE, error |-> "<none>"],
     [success |-> FALSE, error |-> "Error: VAPI API error: 400"]}

\* what the RPC to record_call_attempt does: it records the attempt, it
\* returns an error that the loop does not read, or the client throws
RpcOutcomes == {"recorded", "error", "thrown"}

NextStartCalling ==
    \/ Tick(QueueInstants)
    \/ \E uiBatchSize \in 1..MaxUiBatch : StartCallingPost(uiBatchSize)
    \/ \E callResult \in CallResults, rpc \in RpcOutcomes :
         StartCallingContact(callResult, rpc)
    \/ StartCallingRespond

SpecStartCalling == InitQueue /\ [][NextStartCalling]_vars

\* two POST requests to start-calling that overlap: the second checks its
\* contacts at any point of the first and calls them when the first has
\* answered; the clock moves on between requests
NextSecondPost ==
    \/ startCalling.pc # "loop" /\ secondPost.pc = "none" /\ Tick(QueueInstants)
    \/ \E uiBatchSize \in 1..MaxUiBatch : StartCallingPost(uiBatchSize)
    \/ \E uiBatchSize \in 1..MaxUiBatch : StartCallingSecondPost(uiBatchSize)
    \/ StartCallingSecondLoop
    \/ \E callResult \in CallResults, rpc \in RpcOutcomes :
         StartCallingContact(callResult, rpc)
    \/ StartCallingRespond

SpecSecondPost == InitQueue /\ [][NextSecondPost]_vars

-----------------------------------------------------------------------------
(* The call-job queue runner *)

\* what the queue runner leaves alone
campaignVars ==
    <<now, settingVars, ledgerVars, lastCheck, queueVars, lastPreload, minute,
      cron_schedules, webhook_cache, dispatch, scheduleCheck, startCalling, readyToCall,
      capacityRead, secondPost>>

\* job.config_json?.rate_limit || 10
DefaultRateLimit == 10
RateLimit(job) ==
    IF job.rate_limit = NULL \/ job.rate_limit = 0 THEN DefaultRateLimit ELSE job.rate_limit

\* the jobs the first query returns: status queued or running
ActiveJobs == {j \in DOMAIN call_jobs : call_jobs[j].status \in {"queued", "running"}}

\* the jobs in the order of their ids
RECURSIVE JobList(_)
JobList(S) ==
    IF S = {} THEN <<>>
    ELSE LET j == CHOOSE x \in S : \A y \in S : x <= y IN <<j>> \o JobList(S \ {j})

\* the rows the second query can return for the job: queued, due, at most
\* rateLimit of them, in any order
QueueItems(job) ==
    LET due == {c \in call_job_contacts :
                   /\ c.call_job_id = job
                   /\ c.status = "queued"
                   /\ c.scheduled_at <= Clock}
        limit == Min(RateLimit(call_jobs[job]), Cardinality(due))
    IN  UNION {FetchOrders(S) : S \in {T \in SUBSET due : Cardinality(T) = limit}}

\* a retry that is granted once more than the code grants
shouldRetryInclusive(item) == item.attempts + 1 <= item.max_attempts

\* shouldRetry = item.attempts + 1 < item.max_attempts
shouldRetry(item) == item.attempts + 1 < item.max_attempts

\* UPDATE call_job_contacts ... WHERE id = item.id
UpdateItem(id, Change(_)) ==
    {IF c.id = id THEN Change(c) ELSE c : c \in call_job_contacts}

\* the request arrives: the active jobs are read
RunnerServe ==
    /\ queueRunner.pc = "idle"
    /\ queueRunner' = IF ActiveJobs = {}
                      THEN [queueRunner EXCEPT !.totalProcessed = 0]
                      ELSE [queueRunner EXCEPT !.pc = "jobs", !.jobs = JobList(ActiveJobs),
                                               !.totalProcessed = 0]
    /\ UNCHANGED <<campaignVars, call_jobs, call_job_contacts, call_runs>>

\* the queued contacts of the next job are pulled; the loop goes on with the
\* following job when the query fails or returns nothing
RunnerPull(fetchError) ==
    /\ queueRunner.pc = "jobs"
    /\ queueRunner.jobs # <<>>
    /\ LET job == Head(queueRunner.jobs) IN
       \E queueItems \in QueueItems(job) :
          queueRunner' =
              IF fetchError \/ queueItems = <<>>
              THEN [queueRunner EXCEPT !.jobs = Tail(@)]
              ELSE [queueRunner EXCEPT !.pc = "items", !.job = job,
                                       !.queueItems = queueItems]
    /\ UNCHANGED <<campaignVars, call_jobs, call_job_contacts, call_runs>>

\* the next item is marked as calling with one more attempt than it was
\* read with
RunnerMark ==
    /\ queueRunner.pc = "items"
    /\ queueRunner.queueItems # <<>>
    /\ LET item == Head(queueRunner.queueItems)
           Calling(c) == [c EXCEPT !.status = "calling", !.attempts = item.attempts + 1]
       IN  call_job_contacts' = UpdateItem(item.id, Calling)
    /\ queueRunner' = [queueRunner EXCEPT !.pc = "marked"]
    /\ UNCHANGED <<campaignVars, call_jobs, call_runs>>

\* the call of the marked item is asked of the provider: it is placed and a
\* call_runs row is inserted, or the request fails and the item is queued
\* again or given up
RunnerCall(placed) ==
    /\ queueRunner.pc = "marked"
    /\ LET item == Head(queueRunner.queueItems)
           Failure(c) ==
               IF shouldRetry(item)
               THEN [c EXCEPT !.status = "queued", !.last_error = "API error",
                              !.scheduled_at = Clock + 1]
               ELSE [c EXCEPT !.status = "failed", !.last_error = "API error"]
       IN  /\ IF placed
              THEN /\ call_runs' = call_runs \cup
                                     {[item |-> item.id, status |-> "initiated",
                                       started_at |-> Clock]}
                   /\ UNCHANGED call_job_contacts
              ELSE /\ call_job_contacts' = UpdateItem(item.id, Failure)
                   /\ UNCHANGED call_runs
           /\ queueRunner' =
                [queueRunner EXCEPT !.pc = "items", !.queueItems = Tail(@),
                                    !.totalProcessed = IF placed THEN @ + 1 ELSE @,
                                    !.requests[item.id] = @ + 1]
    /\ UNCHANGED <<campaignVars, call_jobs>>

\* the items of the job are done: the job is set to running
RunnerJobDone ==
    /\ queueRunner.pc = "items"
    /\ queueRunner.queueItems = <<>>
    /\ call_jobs' = [call_jobs EXCEPT ![queueRunner.job].status = "running"]
    /\ queueRunner' = [queueRunner EXCEPT !.pc = "jobs", !.jobs = Tail(@)]
    /\ UNCHANGED <<campaignVars, call_job_contacts, call_runs>>

\* every job is done: the number of calls placed is returned
RunnerRespond ==
    /\ queueRunner.pc = "jobs"
    /\ queueRunner.jobs = <<>>
    /\ queueRunner' = [queueRunner EXCEPT !.pc = "idle"]
    /\ UNCHANGED <<campaignVars, call_jobs, call_job_contacts, call_runs>>

\* the items of the jobs and the minutes the clock visits: Mon 10:00-10:05
RunnerItemIds == {1, 2}
RunnerInstants == 600..605

\* two jobs, one of them done; the active job holds two queued items that
\* are due
InitRunner ==
    /\ now = 10
    /\ minute = 0
    /\ deployed = "004"
    /\ call_frequency_settings = DefaultFrequencySettings
    /\ calling_settings = [max_daily_calls |-> NULL]
    /\ call_attempts = {}
    /\ phone_number_history = {}
    /\ vapi_calls = {}
    /\ lastCheck = {}
    /\ daily_call_queue = {}
    /\ ghlContacts = <<>>
    /\ deq = [i \in Invocations |-> IdleInvocation]
    /\ queueBefore = NoQueueSummary
    /\ lastPreload = NoPreload
    /\ cron_schedules = {}
    /\ webhook_cache = {}
    /\ dispatch = NoDispatch
    /\ scheduleCheck = {}
    /\ startCalling = NoStartCalling
    /\ secondPost = NoSecondPost
    /\ capacityRead = NoCapacityRead
    /\ readyToCall = {}
    /\ \E limit \in {1, NULL} :
         call_jobs = <<[status |-> "queued", rate_limit |-> limit],
                       [status |-> "completed", rate_limit |-> NULL]>>
    /\ \E max_attempts \in [RunnerItemIds -> 1..MaxJobAttempts] :
         call_job_contacts =
             {[id |-> i, call_job_id |-> 1, status |-> "queued", attempts |-> 0,
               max_attempts |-> max_attempts[i], scheduled_at |-> 600,
               last_error |-> NULLTXT] : i \in RunnerItemIds}
    /\ call_runs = {}
    /\ queueRunner = [NoQueueRunner EXCEPT !.requests = [i \in RunnerItemIds |-> 0]]

\* successive runs of the queue runner while the clock moves on
NextRunner ==
    \/ queueRunner.pc = "idle" /\ TickMinutes(RunnerInstants)
    \/ RunnerServe
    \/ \E fetchError \in BOOLEAN : RunnerPull(fetchError)
    \/ RunnerMark
    \/ \E placed \in BOOLEAN : RunnerCall(placed)
    \/ RunnerJobDone
    \/ RunnerRespond

SpecRunner == InitRunner /\ [][NextRunner]_vars

-----------------------------------------------------------------------------
(* What the properties read from the store *)

\* permanent_dnc of the number's history row
PermanentDnc(p) == \E h \in phone_number_history : h.phone_number = p /\ h.permanent_dnc

\* the lower-case name of the day of an instant
WeekdayName(t) ==
    <<"monday", "tuesday", "wednesday", "thursday", "friday", "saturday", "sunday">>
        [(DateOf(t) % 7) + 1]

DayEnabled(t) == WeekdayName(t) \in call_frequency_settings["enabled_days"]

InCallWindow(t) ==
    /\ call_frequency_settings["call_window_start"] <= HourOf(t)
    /\ HourOf(t) <= call_frequency_settings["call_window_end"]

\* attempts recorded for the number on the calendar day of t
AttemptsOn(p, t) ==
    IF AttemptRows(p, DateOf(t)) = {} THEN 0
    ELSE (CHOOSE r \in AttemptRows(p, DateOf(t)) : TRUE).attempt_count

\* attempts recorded for the number over its lifetime
LifetimeAttempts(p) ==
    IF HistoryRows(p) = {} THEN 0
    ELSE (CHOOSE h \in HistoryRows(p) : TRUE).total_attempts

\* the cooldown of today's attempt row is still running at t
TodayCooldownRunning(p, t) ==
    \E r \in AttemptRows(p, DateOf(t)) : r.cooldown_until # NULL /\ r.cooldown_until > t

\* some cooldown_until stored for the number lies after t
AnyCooldownRunning(p, t) ==
    \E r \in call_attempts :
        r.phone_number = p /\ r.cooldown_until # NULL /\ r.cooldown_until > t

\* the most recent attempt row of a number
LatestAttempt(r) ==
    \A q \in call_attempts :
        q.phone_number = r.phone_number => q.last_attempt_at <= r.last_attempt_at

\* the reason the documented evaluation order yields
FirstFailingCheck(p, t) ==
    IF PermanentDnc(p) THEN "permanent_dnc"
    ELSE IF ~DayEnabled(t) THEN "outside_calling_days"
    ELSE IF ~InCallWindow(t) THEN "outside_calling_hours"
    ELSE IF TodayCooldownRunning(p, t) THEN "in_cooldown"
    ELSE IF AttemptsOn(p, t) >= call_frequency_settings["max_attempts_per_day"]
         THEN "daily_limit_reached"
    ELSE IF LifetimeAttempts(p) >= call_frequency_settings["max_total_attempts"]
         THEN "total_limit_reached"
    ELSE "ok"

-----------------------------------------------------------------------------
(* Properties *)

\* C2: a number whose history row has permanent_dnc = true is never eligible
\* and the reason returned is the permanent-DNC one, whatever the time, the
\* ledger and the settings.
C2_PermanentDncBlocks ==
    \A c \in lastCheck :
        PermanentDnc(c.phone) =>
            /\ ~CanCall(c.res)
            /\ ReasonCode(c.res) = "permanent_dnc"

\* C3: after an attempt ended by the customer at t, cooldown_until is stored
\* as t + customer_ended_cooldown_hours, and every check of that number at
\* t <= now < cooldown_until (not DNC, enabled day, inside calling hours)
\* answers in-cooldown with exactly the stored timestamp.
C3_CustomerEndedCooldown ==
    \A c \in lastCheck : \A r \in call_attempts :
        LET hours == call_frequency_settings["customer_ended_cooldown_hours"] IN
        ( /\ r.phone_number = c.phone
          /\ r.last_ended_reason = "customer-ended-call"
          /\ LatestAttempt(r)
          /\ ~PermanentDnc(c.phone) /\ DayEnabled(c.at) /\ InCallWindow(c.at)
          /\ r.last_attempt_at <= c.at /\ c.at < r.last_attempt_at + hours )
        => /\ r.cooldown_until = r.last_attempt_at + hours
           /\ ~CanCall(c.res)
           /\ ReasonCode(c.res) = "in_cooldown"
           /\ c.res.cooldown_until = r.cooldown_until

\* C4: the reason returned is that of the first failing check in the order
\* permanent DNC, enabled day, time window, cooldown, daily cap, total cap.
C4_FirstFailingCheckReported ==
    \A c \in lastCheck : ReasonCode(c.res) = FirstFailingCheck(c.phone, c.at)

\* C5: an eligible answer with reason ok implies that none of the six
\* checks fails in the state the function read.
C5_EligibleImpliesAllChecks ==
    \A c \in lastCheck :
        (CanCall(c.res) /\ ReasonCode(c.res) = "ok") =>
            /\ ~PermanentDnc(c.phone)
            /\ DayEnabled(c.at)
            /\ InCallWindow(c.at)
            /\ ~AnyCooldownRunning(c.phone, c.at)
            /\ AttemptsOn(c.phone, c.at) < call_frequency_settings["max_attempts_per_day"]
            /\ LifetimeAttempts(c.phone) < call_frequency_settings["max_total_attempts"]

EarlierCheckFails(p, t) ==
    IF deployed = "004"
    THEN PermanentDnc(p) \/ ~DayEnabled(t)
    ELSE LET rows == {r \in call_attempts : r.phone_number = p}
             daily == IF calling_settings["max_daily_calls"] = NULL THEN 100
                      ELSE calling_settings["max_daily_calls"]
         IN  \/ Cardinality({r \in rows : r.created_at >= DateOf(t) * 24}) >= daily
             \/ Cardinality(rows) >= call_frequency_settings["max_total_attempts"]

C7_FreshNumberThenNoAnswer ==
    \A c \in lastCheck :
        /\ ( /\ HistoryRows(c.phone) = {}
             /\ ~\E r \in call_attempts : r.phone_number = c.phone
             /\ DayEnabled(c.at) /\ InCallWindow(c.at) )
           => /\ CanCall(c.res)
              /\ ReasonCode(c.res) = "ok"
              /\ c.res.attempts_today = 0
              /\ c.res.total_attempts = 0
        /\ \A r \in call_attempts :
             ( /\ r.phone_number = c.phone
               /\ LifetimeAttempts(c.phone) = 1 /\ ~PermanentDnc(c.phone)
               /\ r.last_call_status = "ended"
               /\ r.last_ended_reason = "customer-did-not-answer"
               /\ c.at = r.last_attempt_at + 1
               /\ DayEnabled(c.at) /\ InCallWindow(c.at) )
             => /\ ~CanCall(c.res)
                /\ ReasonCode(c.res) = "in_cooldown"
                /\ c.res.cooldown_until =
                     r.last_attempt_at + call_frequency_settings["no_pickup_cooldown_hours"]

\* the setting the documented decision table selects for an ended reason
DocumentedCooldownSetting(reason) ==
    CASE reason \in {"customer-did-not-answer", "voicemail", "customer-busy"}
           -> "no_pickup_cooldown_hours"
      [] reason \in {"twilio-failed-to-connect-call", "CONNECTION-lost", "pipeline-Failed"}
           -> "failed_connection_cooldown_hours"
      [] reason = "customer-ended-call" -> "customer_ended_cooldown_hours"
      [] OTHER -> "default_cooldown_hours"

\* C8: every attempt row carries cooldown_until = attempt time + the hours of
\* the setting the decision table selects for its ended reason (no-pickup
\* family, then twilio/connection/failed in any case, then customer-ended,
\* else default, a missing reason included).
C8_CooldownDecisionTable ==
    \A r \in call_attempts :
        r.cooldown_until =
            r.last_attempt_at
              + call_frequency_settings[DocumentedCooldownSetting(r.last_ended_reason)]

\* C8 witness: an upper-case connection failure was recorded as the second
\* attempt of a day, after an attempt without an ended reason
C8_Witness ==
    \E r \in call_attempts :
        /\ r.last_ended_reason = "CONNECTION-lost"
        /\ r.attempt_count = 2
        /\ r.cooldown_until =
             r.last_attempt_at + call_frequency_settings["failed_connection_cooldown_hours"]

\* the rows that were pending for a date when the running dequeues began
PendingBefore(D) == {id \in queueBefore.pending : Row(id).queue_date = D}

\* C1: two overlapping get_next_call_batch(n, D) on the same date return
\* disjoint row sets; with the queue content fixed, every returned row was
\* pending for D before the calls and both together return no more rows than
\* were pending for D.
C1_ConcurrentBatchesDisjoint ==
    \A i \in Invocations : \A j \in Invocations \ {i} :
        (deq[i].D = deq[j].D /\ deq[i].ret # {} /\ deq[j].ret # {}) =>
            /\ deq[i].ret \cap deq[j].ret = {}
            /\ MaxId = queueBefore.maxId =>
                 /\ deq[i].ret \subseteq PendingBefore(deq[i].D)
                 /\ Cardinality(deq[i].ret \cup deq[j].ret)
                      <= Cardinality(PendingBefore(deq[i].D))

\* C1 witness: both invocations are in flight and hold rows; the second one
\* passed over a row that the first one holds
C1_Witness ==
    /\ deq[1].pc = "scan" /\ deq[2].pc = "scan"
    /\ deq[1].D = deq[2].D
    /\ MaxId = queueBefore.maxId
    /\ \E a \in deq[1].ret : \E b \in deq[2].ret : SortsBefore(Row(a), Row(b))

\* C9: a daily preload run twice in succession for a date leaves as many
\* rows for that date as the first run did, and the queue never holds two
\* rows with the same (queue_date, contact_id).
C9_PreloadTwiceSameCount ==
    /\ lastPreload.runs = 2 =>
         Cardinality({r \in daily_call_queue : r.queue_date = lastPreload.date})
           = lastPreload.count
    /\ \A r1 \in daily_call_queue : \A r2 \in daily_call_queue :
         (r1.queue_date = r2.queue_date /\ r1.contact_id = r2.contact_id) => r1 = r2

\* C9 witness: the handler ran twice on a date for which the first run could
\* load some contacts but fewer than the target
C9_Witness ==
    /\ lastPreload.kind = "handler"
    /\ lastPreload.runs = 2
    /\ lastPreload.count > 0
    /\ lastPreload.count < targetTotal

\* C10: after a daily preload run for today no row of an earlier date is
\* still pending, and get_next_call_batch for today returns no row of an
\* earlier date.
C10_StalePendingSkipped ==
    /\ lastPreload.kind # "none" =>
         ~\E r \in daily_call_queue :
             r.status = "pending" /\ r.queue_date < lastPreload.date
    /\ \A i \in Invocations : \A id \in deq[i].ret : Row(id).queue_date = deq[i].D

\* the minute of an instant lies within the bounds of a window
MinuteWithinBounds(s, t) ==
    /\ current_hour(t) = s.start_hour => current_minute(t) >= s.start_minute
    /\ current_hour(t) = s.end_hour => current_minute(t) <= s.end_minute

\* a window matches an instant: it is active, its day type includes the day,
\* the hour lies in [start_hour, end_hour], the minute lies within bounds and
\* the minutes elapsed since its start are a non-negative multiple of its
\* interval
WindowMatches(s, t) ==
    LET elapsed == (current_hour(t) - s.start_hour) * 60
                      + (current_minute(t) - s.start_minute)
        day == current_day_of_week(t)
    IN  /\ s.is_active
        /\ \/ s.day_type = "weekday" /\ day \in 1..5
           \/ s.day_type = "weekend" /\ day \in {0, 6}
           \/ s.day_type = "saturday" /\ day = 6
           \/ s.day_type = "sunday" /\ day = 0
        /\ s.start_hour <= current_hour(t) /\ current_hour(t) <= s.end_hour
        /\ MinuteWithinBounds(s, t)
        /\ elapsed >= 0 /\ elapsed % s.interval_minutes = 0

\* a is preferred to b: more day-specific, then earlier start
PreferredTo(a, b) ==
    LET Rank(w) == CASE w.day_type \in {"saturday", "sunday"} -> 1
                     [] w.day_type = "weekday" -> 2
                     [] OTHER -> 3
    IN  \/ Rank(a) < Rank(b)
        \/ /\ Rank(a) = Rank(b)
           /\ a.start_hour * 60 + a.start_minute < b.start_hour * 60 + b.start_minute

\* the windows reported as matched: by should_call_now() and by the schedule
\* check of a dispatch cycle
MatchedWindows ==
    {[at |-> c.at, id |-> c.res.current_schedule, by |-> "should_call_now"] :
        c \in {x \in scheduleCheck : x.res.should_call}}
    \cup {[at |-> dispatch.at, id |-> dispatch.matchingSchedule, by |-> "dispatch"] :
            x \in {y \in {dispatch} : y.cycles > 0 /\ y.matchingSchedule # 0}}

\* the stored window with an id
Window(id) == CHOOSE s \in cron_schedules : s.id = id

\* C11: when several active windows match, the window reported as matched is
\* one that no other matching window is preferred to (most day-specific type,
\* then earliest start), whatever the order in which the windows are fetched.
C11_MostSpecificWindowMatched ==
    \A m \in MatchedWindows :
        WindowMatches(Window(m.id), m.at) =>
            \A o \in cron_schedules :
                WindowMatches(o, m.at) => ~PreferredTo(o, Window(m.id))

\* C12: a window reported as matched holds the minute within its bounds (not
\* before start_minute in the start hour, not after end_minute in the end
\* hour), so no dispatch cycle passes the schedule gate on a window whose end
\* minute has passed.
C12_MinuteBoundsHonoured ==
    \A m \in MatchedWindows : MinuteWithinBounds(Window(m.id), m.at)

\* C14: a dispatch cycle without bypass that starts while calling is not
\* enabled or no active window matches changes no queue row and ends at the
\* gate with nothing handed over; and should_call_now() reports false when
\* calling is not enabled, whatever windows match.
C14_GateBlocksDispatch ==
    /\ [][ ( /\ dispatch'.cycles # dispatch.cycles
             /\ ~dispatch'.bypassCRON
             /\ ~( /\ CallingEnabledSetting = "true"
                   /\ \E s \in cron_schedules : WindowMatches(s, Clock) ) )
           => ( /\ daily_call_queue' = daily_call_queue
                /\ dispatch'.pc = "done"
                /\ dispatch'.handed = {} ) ]_vars
    /\ [](\A c \in scheduleCheck :
             CallingEnabledSetting # "true" => ~c.res.should_call)

\* a step that starts a dispatch cycle which passes the schedule gate
CycleReachesCapacityCheck ==
    /\ dispatch'.cycles # dispatch.cycles
    /\ dispatch'.message \notin {"Calling is currently disabled in settings",
                                "Outside scheduled calling hours"}

\* the rows the cycle started by the step asks get_next_call_batch for
RowsRequested == IF dispatch'.pc = "rpc" THEN deq'[1].n ELSE 0

CycleReachesStaleRecovery ==
    /\ dispatch'.cycles # dispatch.cycles
    /\ dispatch'.pc = "rpc"

\* the row has been in sent_to_n8n for more than 15 minutes: by its
\* sent_to_n8n_at, or by its updated_at when it carries no sent_to_n8n_at
SentLongAgo(r) ==
    /\ r.status = "sent_to_n8n"
    /\ IF r.sent_to_n8n_at # NULL
       THEN Clock - r.sent_to_n8n_at > 15
       ELSE Clock - r.updated_at > 15

C15_StatusFollowsEdges ==
    [][ LET NonTerminal == {"pending", "sent_to_n8n", "calling"}
            AllowedEdge(from, to) ==
                \/ from = "pending" /\ to = "sent_to_n8n"
                \/ from = "sent_to_n8n" /\ to = "calling"
                \/ from = "calling" /\ to = "completed"
                \/ from \in NonTerminal /\ to \in {"failed", "skipped"}
                \/ from \in {"sent_to_n8n", "calling"} /\ to = "pending"
        IN  \A r \in daily_call_queue, q \in daily_call_queue' :
                (q.id = r.id /\ q.status # r.status) =>
                    AllowedEdge(r.status, q.status) ]_vars

\* a step that ends a dispatch cycle whose handoff to the webhook had the
\* outcome
CycleEndsWithHandoff(outcome) ==
    /\ dispatch.pc = "rpc"
    /\ dispatch'.pc = "done"
    /\ dispatch'.handoff = outcome

\* C17: when the handoff to the webhook fails, every queue row of a contact
\* the cycle handed over is back in pending with a skip reason when the cycle
\* ends, and the response of the cycle is an error response.
C17_FailedHandoffRequeues ==
    [][ CycleEndsWithHandoff("failed") =>
          /\ \A q \in daily_call_queue' :
                (q.queue_date = DateOf(now) /\ q.contact_id \in dispatch'.handed) =>
                    q.status = "pending" /\ q.skip_reason # NULLTXT
          /\ dispatch'.status >= 400 ]_vars

\* C18: when the handoff to the webhook succeeds, every queue row of a
\* contact of the handed-off batch is in calling when the cycle ends, and the
\* recently-sent cache holds an entry of this send for each of the contacts.
C18_HandoffMarksCalling ==
    [][ CycleEndsWithHandoff("ok") =>
          /\ \A q \in daily_call_queue' :
                (q.queue_date = DateOf(now) /\ q.contact_id \in dispatch'.handed) =>
                    q.status = "calling"
          /\ \A c \in dispatch'.handed :
                \E wc \in webhook_cache' :
                    /\ wc.contact_id = c
                    /\ wc.webhook_url = n8nWebhookUrl
                    /\ wc.last_sent_at = Clock ]_vars

\* the contact has a cache entry for the webhook that is younger than 30
\* minutes
RecentlySent(c) ==
    \E wc \in webhook_cache :
        /\ wc.contact_id = c
        /\ wc.webhook_url = n8nWebhookUrl
        /\ Clock - wc.last_sent_at < 30

\* C19: no contact with a recently-sent cache entry for the webhook younger
\* than 30 minutes is in the batch a dispatch cycle hands to the webhook,
\* also when the cache lookup fails.
C19_RecentlySentNotHanded ==
    [][ (dispatch.pc = "rpc" /\ dispatch'.pc = "done") =>
          \A c \in dispatch'.handed : ~RecentlySent(c) ]_vars

\* the number is in the canonical +44 form: the conversion leaves it as it is
Canonical(phone) == PhoneForCheck(phone) = phone

\* C20: every read and write keyed by phone number uses the canonical form of
\* the number: the keys of the stored ledger, history and queue rows, and the
\* keys by which a dispatch cycle selects the queue rows it updates.
C20_CanonicalPhoneKeys ==
    /\ \A r \in daily_call_queue : Canonical(r.phone_number)
    /\ \A a \in call_attempts : Canonical(a.phone_number)
    /\ \A h \in phone_number_history : Canonical(h.phone_number)
    /\ \A p \in dispatch.phoneNumbers : Canonical(p)

\* C21: permanent_dnc is a one-way latch: no step of the ledger operations
\* sets the flag of a number back to false or removes the row that holds it.
C21_DncLatch ==
    [][ \A h \in phone_number_history :
          h.permanent_dnc =>
              \E g \in phone_number_history' :
                  g.phone_number = h.phone_number /\ g.permanent_dnc ]_vars

\* an attempt was recorded for a number after it was marked: the history row
\* made by the marking holds a single attempt with its pickup time
C21_AttemptAfterDnc ==
    \E h \in phone_number_history :
        /\ h.permanent_dnc
        /\ h.total_attempts = 1
        /\ h.last_pickup_call # NULL

\* C22: when the analysis of a call reports that the customer asked not to be
\* called again, the number of the call is permanent do-not-call once the
\* analysis is stored.
C22_DncRequestSetsLatch ==
    \A call \in vapi_calls :
        ( /\ call.ai_analysis_status = "completed"
          /\ call.asked_explicitly_to_not_call_again ) =>
            PermanentDnc(call.phone_number)

\* attempt_count of the row of a number and date, 0 when there is no row
AttemptCount(attempts, p, d) ==
    LET rows == {r \in attempts : r.phone_number = p /\ r.call_date = d} IN
    IF rows = {} THEN 0 ELSE (CHOOSE r \in rows : TRUE).attempt_count

\* total_attempts of the history row of a number, 0 when there is no row
TotalAttempts(history, p) ==
    LET rows == {h \in history : h.phone_number = p} IN
    IF rows = {} THEN 0 ELSE (CHOOSE h \in rows : TRUE).total_attempts

\* the sum of attempt_count over the rows of a number
RECURSIVE SumAttemptCount(_, _)
SumAttemptCount(attempts, p) ==
    LET rows == {r \in attempts : r.phone_number = p} IN
    IF rows = {} THEN 0
    ELSE LET r == CHOOSE x \in rows : TRUE
         IN  r.attempt_count + SumAttemptCount(attempts \ {r}, p)

\* C23: each record_call_attempt raises attempt_count of the row of (number,
\* date of the attempt) by exactly one and total_attempts of the number by
\* exactly one, leaving the other rows' counts alone; total_attempts of a
\* number equals the sum of its attempt_count over all dates; and there is at
\* most one call_attempts row per (number, date).
C23_AttemptCounters ==
    /\ [](\A a, b \in call_attempts :
            (a.phone_number = b.phone_number /\ a.call_date = b.call_date) => a = b)
    /\ [](\A h \in phone_number_history :
            h.total_attempts = SumAttemptCount(call_attempts, h.phone_number))
    /\ [][ call_attempts' # call_attempts =>
             \E r \in call_attempts' :
                 LET p == r.phone_number
                     d == r.call_date
                 IN  /\ r.attempt_count = AttemptCount(call_attempts, p, d) + 1
                     /\ TotalAttempts(phone_number_history', p)
                            = TotalAttempts(phone_number_history, p) + 1
                     /\ \A o \in call_attempts' \cup call_attempts :
                           (o.phone_number # p \/ o.call_date # d) =>
                               o \in call_attempts /\ o \in call_attempts'
                     /\ \A h \in phone_number_history' \cup phone_number_history :
                           h.phone_number # p =>
                               h \in phone_number_history /\ h \in phone_number_history' ]_vars

\* a number was attempted twice on one day
C23_SecondAttemptSameDay ==
    \E a \in call_attempts :
        /\ a.attempt_count = 2
        /\ TotalAttempts(phone_number_history, a.phone_number) = 2

\* a column of the history row of a number, NULL when there is no row
HistoryValue(history, p, column) ==
    LET rows == {h \in history : h.phone_number = p} IN
    IF rows = {} THEN NULL ELSE (CHOOSE h \in rows : TRUE)[column]

\* C24: after record_call_attempt(p, .., reason, at) with an ended reason
\* outside customer-did-not-answer, voicemail, customer-busy and
\* twilio-failed-to-connect-call, last_pickup_call of p is at, and otherwise
\* it is unchanged; with customer-ended-call or assistant-ended-call
\* last_successful_call of p is at, and otherwise it is unchanged; also when
\* the attempt is the first recorded for p.
C24_PickupAndSuccessTimes ==
    [][ \A r \in call_attempts' \ call_attempts :
          LET p == r.phone_number
              reason == r.last_ended_reason
              at == r.last_attempt_at
          IN  /\ HistoryValue(phone_number_history', p, "last_pickup_call") =
                   IF /\ reason # NULLTXT
                      /\ reason \notin {"customer-did-not-answer", "voicemail",
                                        "customer-busy", "twilio-failed-to-connect-call"}
                   THEN at
                   ELSE HistoryValue(phone_number_history, p, "last_pickup_call")
              /\ HistoryValue(phone_number_history', p, "last_successful_call") =
                   IF reason \in {"customer-ended-call", "assistant-ended-call"}
                   THEN at
                   ELSE HistoryValue(phone_number_history, p, "last_successful_call") ]_vars

\* C25: when get_next_call_batch returns, every returned row is in
\* sent_to_n8n with a sent_to_n8n_at; the returned rows are exactly the rows
\* whose status the call changed; and every row the call changed was a
\* pending row of the queue date asked for.
C25_BatchMarksWhatItReturns ==
    [][ \A i \in Invocations :
          (deq[i].pc = "scan" /\ deq'[i].pc = "idle") =>
              /\ \A id \in deq'[i].ret :
                    \E q \in daily_call_queue' :
                        /\ q.id = id
                        /\ q.status = "sent_to_n8n"
                        /\ q.sent_to_n8n_at # NULL
              /\ {r.id : r \in {x \in daily_call_queue :
                                   \A q \in daily_call_queue' :
                                       q.id = x.id => q.status # x.status}}
                   = deq'[i].ret
              /\ \A r \in daily_call_queue \ daily_call_queue' :
                    r.queue_date = deq[i].D /\ r.status = "pending" ]_vars

\* a call has returned some rows of the date and has left another pending
\* row of the date alone
C25_BatchReturned ==
    \E i \in Invocations :
        /\ deq[i].pc = "idle"
        /\ deq[i].ret # {}
        /\ \A id \in deq[i].ret : Row(id).status = "sent_to_n8n"
        /\ \E r \in daily_call_queue :
              r.queue_date = deq[i].D /\ r.status = "pending" /\ r.id \notin deq[i].ret

DefaultCooldownHours == 24
DefaultWindowStart == 9
DefaultWindowEnd == 18
DefaultMaxDaily004 == 1

\* C27: a setting without a row takes its hard-coded default: with the
\* cooldown-hours rows absent every recorded attempt has a cooldown_until of
\* its attempt time plus the default hours, and with the cap and window rows
\* absent should_call_phone_number refuses a call outside 09:00-18:00 and a
\* call beyond the default daily cap.
C27_DefaultsWhenAbsent ==
    /\ \A r \in call_attempts :
          GetFrequencySetting(CooldownSetting(r.last_ended_reason)) = NULL =>
              /\ r.cooldown_until # NULL
              /\ r.cooldown_until = r.last_attempt_at + DefaultCooldownHours
    /\ \A c \in lastCheck :
          ( /\ GetFrequencySetting("call_window_start") = NULL
            /\ GetFrequencySetting("call_window_end") = NULL
            /\ HourOf(c.at) < DefaultWindowStart \/ HourOf(c.at) > DefaultWindowEnd )
              => ~CanCall(c.res)
    /\ \A c \in lastCheck :
          ( /\ deployed = "004"
            /\ GetFrequencySetting("max_attempts_per_day") = NULL
            /\ AttemptsOn(c.phone, c.at) >= DefaultMaxDaily004 )
              => ~CanCall(c.res)

\* C28: the remaining capacity a dispatch cycle clamps its batch to leaves
\* out the rows that have been in sent_to_n8n for more than 15 minutes: the
\* cycle asks the queue for min(requested batch size, max_daily_calls -
\* (outbound calls started today + today's rows in calling or in sent_to_n8n
\* for at most 15 minutes)) rows.
C28_CapacitySkipsStaleRows ==
    [][ CycleReachesCapacityCheck =>
          LET inFlight == {r \in daily_call_queue :
                              /\ r.queue_date = DateOf(now)
                              /\ r.status \in {"sent_to_n8n", "calling"}
                              /\ ~SentLongAgo(r)}
              capacity == maxDailyCalls
                            - (outboundCompletedOrStarted + Cardinality(inFlight))
          IN  IF capacity <= 0
              THEN dispatch'.pc = "done"
              ELSE RowsRequested = Min(dispatch'.batchSize, capacity) ]_vars

\* C29: a run of the preload handler for a date that holds k < target rows
\* inserts only contacts not yet queued for the date, at most target - k of
\* them, leaves min(target, k + number of eligible contacts not yet queued)
\* rows for the date and leaves the rows already present unchanged.
C29_TopUpFillsShortfall ==
    [][ LET today == DateOf(now)
            queued == {r \in daily_call_queue : r.queue_date = today}
            k == Cardinality(queued)
            candidates == EligibleContacts(ghlContacts, <<>>, Len(ghlContacts) + 1)
            fresh == {candidates[j].contact_id : j \in DOMAIN candidates}
                        \ {r.contact_id : r \in queued}
            added == daily_call_queue' \ daily_call_queue
        IN  ( /\ lastPreload'.kind = "handler"
              /\ lastPreload' # lastPreload
              /\ k < targetTotal ) =>
                /\ daily_call_queue \subseteq daily_call_queue'
                /\ \A r \in added :
                      r.queue_date = today /\ r.contact_id \in fresh
                /\ Cardinality(added) <= targetTotal - k
                /\ Cardinality({r \in daily_call_queue' : r.queue_date = today})
                      = Min(targetTotal, k + Cardinality(fresh)) ]_vars

\* C30: a failure while one contact is processed does not stop the calling
\* loop of start-calling: the request is answered with one result per
\* callable contact, in the order of the callable contacts, and
\* calls_initiated + calls_failed is the number of callable contacts; while
\* the loop runs, the contacts before the current one have one result each.
C30_LoopSurvivesFailures ==
    LET sc == startCalling
        OneResultEach(n) ==
            /\ Len(sc.results) = n
            /\ \A k \in 1..n : sc.results[k].contact_id = sc.callableContacts[k].id
            /\ sc.successCount + sc.errorCount = n
    IN  /\ sc.pc = "loop" => OneResultEach(sc.pos - 1)
        /\ (sc.pc = "done" /\ sc.callableContacts # <<>>) =>
              /\ sc.status = 200
              /\ OneResultEach(Len(sc.callableContacts))

\* a request was answered after the first contact's attempt could not be
\* recorded, a later call could not be placed and the last call was placed
C30_FailuresThenSuccess ==
    /\ startCalling.pc = "done"
    /\ Len(startCalling.callableContacts) = 3
    /\ startCalling.results[1].error = "TypeError: fetch failed"
    /\ ~startCalling.results[2].success
    /\ startCalling.results[3].success
    /\ startCalling.successCount = 1
    /\ startCalling.errorCount = 2

\* C31: every priority score stored on a queue row or returned with a
\* callable number lies in 0..100: a returned number scores 100 when it was
\* never picked up, 80 when it has no successful call, and otherwise a value
\* within the range.
C31_PriorityWithinRange ==
    /\ [](\A r \in daily_call_queue : r.priority_score \in 0..100)
    /\ [](\A r \in readyToCall : r.priority_score \in 0..100)
    /\ [][ readyToCall' # readyToCall =>
            \A r \in readyToCall' : \A h \in HistoryRows(r.phone_number) :
                /\ h.last_pickup_call = NULL => r.priority_score = 100
                /\ (h.last_pickup_call # NULL /\ h.last_successful_call = NULL)
                      => r.priority_score = 80 ]_vars

\* C32: the schedule check of the dispatch handler is equivalent to
\* should_call_now: with calling enabled, a dispatch cycle finds a matching
\* schedule exactly when should_call_now returns should_call = true at the
\* same instant, and the window it finds is one should_call_now can return.
C32_ScheduleChecksAgree ==
    [][ ( /\ dispatch'.cycles # dispatch.cycles
          /\ CallingEnabledSetting = "true" ) =>
            /\ dispatch'.matchingSchedule # 0
                  <=> \E res \in should_call_now(Clock) : res.should_call
            /\ dispatch'.matchingSchedule # 0 =>
                  \E res \in should_call_now(Clock) :
                      res.should_call /\ res.current_schedule = dispatch'.matchingSchedule
      ]_vars

\* C33: however dispatch cycles of one day overlap, the outbound calls started
\* today plus today's rows in sent_to_n8n or calling never exceed
\* max_daily_calls
C33_InFlightWithinDailyCap ==
    outboundCompletedOrStarted + processingNow <= maxDailyCalls

\* C34: every queue row a dispatch cycle moves to sent_to_n8n is in calling
\* or back in pending when the cycle returns: no row of the batch stays in
\* sent_to_n8n, also when deduplication removed its contact or the cycle is a
\* dry run.
C34_NoRowLeftSent ==
    [][ (dispatch.pc = "rpc" /\ dispatch'.pc = "done") =>
          \A q \in daily_call_queue' :
              q.id \in deq[1].ret => q.status \in {"calling", "pending"} ]_vars

\* the recently-sent cache shows a successful handoff of the contact today:
\* record_sent_contacts writes an entry only after the webhook answered 2xx
HandedToday(c) ==
    \E wc \in webhook_cache :
        /\ wc.contact_id = c
        /\ wc.webhook_url = n8nWebhookUrl
        /\ DateOf(wc.last_sent_at \div 60) = DateOf(now)

\* C35: a queue row whose contact was handed to the webhook successfully is
\* never set back to pending and never returned by a later
\* get_next_call_batch for the same date, whatever dispatch cycles, stale
\* resets and vapi-sync runs follow; a contact is handed at most once per
\* queue date.
C35_HandedOnce ==
    [][ /\ \A r \in daily_call_queue, q \in daily_call_queue' :
              ( /\ q.id = r.id
                /\ r.queue_date = DateOf(now)
                /\ HandedToday(r.contact_id)
                /\ r.status # "pending" ) => q.status # "pending"
        /\ \A i \in DOMAIN deq : \A id \in deq'[i].ret \ deq[i].ret :
              deq'[i].D = DateOf(now) => ~HandedToday(Row(id).contact_id)
        /\ CycleEndsWithHandoff("ok") =>
              \A c \in dispatch'.handed : ~HandedToday(c) ]_vars

\* the row with the id is in today's queue and has been in sent_to_n8n for
\* more than 15 minutes
StuckRow(id) ==
    \E r \in daily_call_queue : r.id = id /\ r.queue_date = DateOf(now) /\ SentLongAgo(r)

\* C36: while dispatch cycles keep being triggered inside a matching window,
\* a row that has stayed in sent_to_n8n because nothing downstream progressed
\* is eventually set back to pending, also when the stuck rows and the calls
\* placed use up all of max_daily_calls.
C36_StuckRowRecovered ==
    \A id \in 1..targetTotal :
        StuckRow(id) ~> (\E r \in daily_call_queue : r.id = id /\ r.status = "pending")

\* the rows of the queue that the step changes
RowsChanged == {r \in daily_call_queue : r \notin daily_call_queue'}

\* C37: for one queue date at most one row per phone number is in
\* sent_to_n8n or calling at any time, also when the number is queued under
\* two contact ids; a status update addressed by phone number changes only
\* the row of the contact it concerns.
C37_OneRowPerPhone ==
    /\ [](\A r1, r2 \in daily_call_queue :
            ( /\ r1.queue_date = r2.queue_date
              /\ r1.phone_number = r2.phone_number
              /\ r1.status \in {"sent_to_n8n", "calling"}
              /\ r2.status \in {"sent_to_n8n", "calling"} ) => r1.id = r2.id)
    /\ [][ /\ vapi_calls' # vapi_calls => Cardinality(RowsChanged) <= 1
           /\ (dispatch.pc = "rpc" /\ dispatch'.pc = "done") =>
                 \A r \in RowsChanged : r.contact_id \in dispatch'.handed ]_vars

\* the calls placed to the number on the date: one vapi_calls row per call of
\* the provider
CallsPlaced(p, date) ==
    {v.call_id : v \in {w \in vapi_calls :
                          /\ w.phone_number = p
                          /\ w.started_at # NULL
                          /\ DateOf(w.started_at) = date}}

\* C38: attempt_count of a number and day never exceeds the number of calls
\* placed to the number that day: a placed call counts as one attempt,
\* however often its vapi_calls row is inserted or updated.
C38_OneAttemptPerCall ==
    \A a \in call_attempts :
        a.attempt_count <= Cardinality(CallsPlaced(a.phone_number, a.call_date))

\* C39: however two POST requests to start-calling overlap, a phone number
\* is called at most once: the ledger never holds more than one attempt of a
\* number for a day.
C39_CalledAtMostOnce ==
    \A a \in call_attempts : a.attempt_count <= 1

=============================================================================
